---------------------------- MODULE Spec2Model ----------------------------
(***************************************************************************)
(* Model of the engine_v2 linking pipeline of interlinker_tool:            *)
(* candidate generation, guardrails, scoring, anchor extraction and        *)
(* selection, and the budgeted greedy selection with parent/sibling        *)
(* backfill of src/interlinker/engine_v2.                                  *)
(*                                                                         *)
(* Strings are sequences of characters, a character being a one-symbol     *)
(* TLA+ string.  Offsets are 0-based and half-open as in Python.           *)
(* Floats are fixed-point integers; each scale is named where it is used.  *)
(***************************************************************************)
EXTENDS Integers, Sequences, FiniteSets, TLC

Max2(a, b) == IF a >= b THEN a ELSE b

\* The list a comprehension [i \in 1..n |-> e] builds: its elements,
\* each computed once.
ListOf(f) == f \o <<>>

Min2(a, b) == IF a <= b THEN a ELSE b

Abs(a) == IF a >= 0 THEN a ELSE 0 - a

(***************************************************************************)
(* Characters and Python's str operations.                                 *)
(***************************************************************************)

\* U+0130, LATIN CAPITAL LETTER I WITH DOT ABOVE: the one character whose
\* str.lower() is two characters long ("i" followed by U+0307).
DottedI == "I+"

CombiningDot == "+"

UpperLetters == <<"A", "B", "C", "D", "E", "F", "G", "H", "K", "M">>

LowerLetters == <<"a", "b", "c", "d", "e", "f", "g", "h", "k", "m">>

IsUpper(c) == \E i \in 1..Len(UpperLetters) : UpperLetters[i] = c

IsAsciiLetter(c) ==
    \/ IsUpper(c)
    \/ \E i \in 1..Len(LowerLetters) : LowerLetters[i] = c
    \/ c \in {"i", "n", "o", "r", "s", "t", "y", "z"}

IsSpace(c) == c = " "

\* \w of the re module on str: letters (U+0130 is one), not "-", not U+0307.
IsWordChar(c) == IsAsciiLetter(c) \/ c = DottedI

\* str.lower() of one character.
LowerChar(c) ==
    IF c = DottedI THEN <<"i", CombiningDot>>
    ELSE IF IsUpper(c)
         THEN <<LowerLetters[CHOOSE i \in 1..Len(UpperLetters) : UpperLetters[i] = c]>>
         ELSE <<c>>

RECURSIVE StrLower(_)
\* str.lower()
StrLower(s) ==
    IF s = <<>> THEN <<>> ELSE LowerChar(Head(s)) \o StrLower(Tail(s))

RECURSIVE LStrip(_)
LStrip(s) ==
    IF s /= <<>> /\ IsSpace(Head(s)) THEN LStrip(Tail(s)) ELSE s

RECURSIVE RStrip(_)
RStrip(s) ==
    IF s /= <<>> /\ IsSpace(s[Len(s)]) THEN RStrip(SubSeq(s, 1, Len(s) - 1)) ELSE s

\* str.strip()
Strip(s) == RStrip(LStrip(s))

RECURSIVE SplitOn(_, _, _)
\* The maximal runs of characters of s that are not separators, given the
\* word being read (cur) and the set of separators.
SplitOn(s, cur, seps) ==
    IF s = <<>> THEN (IF cur = <<>> THEN <<>> ELSE <<cur>>)
    ELSE IF Head(s) \in seps
         THEN (IF cur = <<>> THEN <<>> ELSE <<cur>>) \o SplitOn(Tail(s), <<>>, seps)
         ELSE SplitOn(Tail(s), Append(cur, Head(s)), seps)

\* str.split() with no argument, and [w for w in re.split(r"\s+", s.strip()) if w].
Split(s) == SplitOn(s, <<>>, {" "})

\* The characters of the model's texts that [\w']  does not match.
NonTokenChars == {" ", "-", CombiningDot}

\* re.findall(r"[\w']+", s)
TokenRuns(s) == SplitOn(s, <<>>, NonTokenChars)

RECURSIVE JoinWords(_)
\* " ".join(words)
JoinWords(ws) ==
    IF ws = <<>> THEN <<>>
    ELSE IF Len(ws) = 1 THEN ws[1]
    ELSE ws[1] \o <<" ">> \o JoinWords(Tail(ws))

\* needle in hay (substring test)
Contains(hay, needle) ==
    \E i \in 1..(Len(hay) - Len(needle) + 1) :
        SubSeq(hay, i, i + Len(needle) - 1) = needle

RECURSIVE FindIter(_, _, _)
\* re.finditer(re.escape(pat), txt): the 0-based starts of the leftmost
\* non-overlapping occurrences of the non-empty literal pat, scanning from
\* the 1-based index from.
FindIter(pat, txt, from) ==
    IF from + Len(pat) - 1 > Len(txt) THEN <<>>
    ELSE IF SubSeq(txt, from, from + Len(pat) - 1) = pat
         THEN <<from - 1>> \o FindIter(pat, txt, from + Len(pat))
         ELSE FindIter(pat, txt, from + 1)

\* str.replace("-", " ")
ReplaceHyphen(s) ==
    ListOf([i \in 1..Len(s) |-> IF s[i] = "-" THEN " " ELSE s[i]])

RECURSIVE SeqOfSet(_)
\* The elements of a finite set in one fixed order.
SeqOfSet(S) ==
    IF S = {} THEN <<>>
    ELSE LET x == CHOOSE y \in S : TRUE IN <<x>> \o SeqOfSet(S \ {x})

Reverse(s) == ListOf([i \in 1..Len(s) |-> s[Len(s) + 1 - i]])

Range(s) == {s[i] : i \in 1..Len(s)}

(***************************************************************************)
(* Page texts.  A text is a head, written out, followed by pad filler      *)
(* words " z": a page of several hundred words is a short head and a       *)
(* count.  No title, tag, brand, head term or entity of the model holds    *)
(* the filler letter, and all of them are stripped before they are         *)
(* searched for, so an occurrence of one never reaches into the filler.    *)
(***************************************************************************)

FillerWord == <<" ", "z">>

\* len(page.text)
TextLen(t) == Len(t.head) + Len(FillerWord) * t.pad

\* page.text[i], i 0-based and within the text
TextCharAt(t, i) ==
    IF i < Len(t.head) THEN t.head[i + 1]
    ELSE FillerWord[((i - Len(t.head)) % Len(FillerWord)) + 1]

\* page.text[start:end] for 0 <= start: Python cuts the slice at the end of
\* the text.
TextSlice(t, start, end) ==
    LET stop == Min2(end, TextLen(t))
    IN  IF stop <= start THEN <<>>
        ELSE ListOf([k \in 1..(stop - start) |-> TextCharAt(t, start + k - 1)])

\* len(page.text.split())
SplitCount(t) == Len(Split(t.head)) + t.pad

\* len(tokenize(page.text))
TokenCount(t) == Len(TokenRuns(t.head)) + t.pad

\* sorted(seq, key=..., reverse=True) and list.sort(key=..., reverse=True),
\* keys[i] being the key of seq[i]: stable, so elements of equal key keep
\* their order.
SortedDescending(seq, keys) ==
    LET n == Len(seq)
        place == ListOf([i \in 1..n |-> Cardinality({j \in 1..n :
                        \/ keys[j] > keys[i]
                        \/ keys[j] = keys[i] /\ j < i}) + 1])
    IN  ListOf([r \in 1..n |-> seq[CHOOSE i \in 1..n : place[i] = r]])

\* list.sort(key=...), keys[i] being the key of seq[i]: stable, ascending.
SortedAscending(seq, keys) ==
    LET n == Len(seq)
        place == ListOf([i \in 1..n |-> Cardinality({j \in 1..n :
                        \/ keys[j] < keys[i]
                        \/ keys[j] = keys[i] /\ j < i}) + 1])
    IN  ListOf([r \in 1..n |-> seq[CHOOSE i \in 1..n : place[i] = r]])

\* list[:n]
Prefix(list, n) ==
    IF n >= 0 THEN SubSeq(list, 1, Min2(n, Len(list)))
    ELSE SubSeq(list, 1, Max2(Len(list) + n, 0))

\* dict.get(key, default) on a page's metadata
MetaGet(page, key, default) ==
    IF key \in DOMAIN page.metadata THEN page.metadata[key] ELSE default

\* config.get(key, default)
ConfigGet(config, key, default) ==
    IF key \in DOMAIN config THEN config[key] ELSE default

(***************************************************************************)
(* entities.py                                                             *)
(***************************************************************************)

\* [a-zA-Z0-9\-']
IsEntityTailChar(c) == IsAsciiLetter(c) \/ c = "-" \/ c = "'"

\* \b before the 1-based index i of s
WordBoundary(s, i) ==
    LET before == i - 1 >= 1 /\ i - 1 <= Len(s) /\ IsWordChar(s[i - 1])
        after  == i >= 1 /\ i <= Len(s) /\ IsWordChar(s[i])
    IN  before /= after

RECURSIVE TailRunEnd(_, _)
\* The last index of the run of tail characters that follows index i.
TailRunEnd(s, i) ==
    IF i + 1 <= Len(s) /\ IsEntityTailChar(s[i + 1]) THEN TailRunEnd(s, i + 1) ELSE i

RECURSIVE SpaceRunEnd(_, _)
SpaceRunEnd(s, i) ==
    IF i + 1 <= Len(s) /\ IsSpace(s[i + 1]) THEN SpaceRunEnd(s, i + 1) ELSE i

RECURSIVE CapitalizedTry(_, _, _)
RECURSIVE CapitalizedAfter(_, _)
\* The match of _CAPITALIZED_RE continues with a word that starts at i and
\* ends at j or, backtracking, earlier: the end of the whole match, 0 if none.
CapitalizedTry(s, i, j) ==
    IF j <= i THEN 0
    ELSE LET r == CapitalizedAfter(s, j)
         IN  IF r /= 0 THEN r ELSE CapitalizedTry(s, i, j - 1)

\* After a word that ends at j: one more (\s+ word) group if it leads to a
\* match, else the closing \b.
CapitalizedAfter(s, j) ==
    LET m == SpaceRunEnd(s, j)
        g == IF m > j /\ m + 1 <= Len(s) /\ IsUpper(s[m + 1])
             THEN CapitalizedTry(s, m + 1, TailRunEnd(s, m + 1))
             ELSE 0
    IN  IF g /= 0 THEN g
        ELSE IF WordBoundary(s, j + 1) THEN j ELSE 0

RECURSIVE CapitalizedFindAll(_, _)
\* _CAPITALIZED_RE.findall(s), scanning from the 1-based index from
CapitalizedFindAll(s, from) ==
    IF from > Len(s) THEN <<>>
    ELSE LET e == IF IsUpper(s[from]) /\ WordBoundary(s, from)
                  THEN CapitalizedTry(s, from, TailRunEnd(s, from))
                  ELSE 0
         IN  IF e /= 0
             THEN <<SubSeq(s, from, e)>> \o CapitalizedFindAll(s, e + 1)
             ELSE CapitalizedFindAll(s, from + 1)

\* get_entities: each kept phrase, stripped and typed generic
GenericEntities(kept) ==
    ListOf([i \in 1..Len(kept) |-> [name |-> Strip(kept[i]), type |-> "generic"]])

\* get_entities: the metadata's entities if it lists any, else the
\* capitalized phrases of at most six words of the text, typed generic.
get_entities(page) ==
    IF MetaGet(page, "entities", <<>>) /= <<>> THEN MetaGet(page, "entities", <<>>)
    ELSE GenericEntities(SelectSeq(CapitalizedFindAll(page.text.head, 1),
                                   LAMBDA m : Len(Split(Strip(m))) <= 6))

\* weight_map.get(type, 0.3), in tenths
EntityWeight(type) ==
    CASE type = "product" -> 10
      [] type = "brand" -> 8
      [] type = "category" -> 6
      [] OTHER -> 3

\* The type the lookup dict of the target's entities gives a lowered name:
\* the last entity of that name wins.
EntityLookup(entities, lowered) ==
    LET hits == {i \in 1..Len(entities) : StrLower(entities[i].name) = lowered}
    IN  entities[CHOOSE i \in hits : \A j \in hits : j <= i].type

\* {entity.name.lower() for entity in entities}
LoweredNames(entities) == {StrLower(entities[i].name) : i \in 1..Len(entities)}

RECURSIVE TotalWeight(_, _)
\* entity_overlap: the weights of the source entities from the i-th on
TotalWeight(se, i) ==
    IF i > Len(se) THEN 0 ELSE EntityWeight(se[i].type) + TotalWeight(se, i + 1)

\* entity_overlap: what one source entity adds to the matched weight
MatchedOne(entity, te, names) ==
    IF StrLower(entity.name) \in names
    THEN Max2(EntityWeight(entity.type),
              EntityWeight(EntityLookup(te, StrLower(entity.name))))
    ELSE 0

RECURSIVE MatchedWeight(_, _, _, _)
MatchedWeight(se, te, names, i) ==
    IF i > Len(se) THEN 0
    ELSE MatchedOne(se[i], te, names) + MatchedWeight(se, te, names, i + 1)

\* matched / total, capped at 1, in thousandths
OverlapRatio(matched, total) ==
    IF total = 0 THEN 0 ELSE Min2((matched * 1000) \div total, 1000)

\* entity_overlap on the two pages' entities
EntitiesOverlap(se, te) ==
    IF se = <<>> \/ te = <<>> THEN 0
    ELSE OverlapRatio(MatchedWeight(se, te, LoweredNames(te), 1), TotalWeight(se, 1))

\* entity_overlap, in thousandths
entity_overlap(source, target) ==
    EntitiesOverlap(get_entities(source), get_entities(target))

\* The first source entity whose lowered name is among names: its index, 0
\* if none.
FirstHit(se, names) ==
    IF \E i \in 1..Len(se) : StrLower(se[i].name) \in names
    THEN CHOOSE k \in 1..Len(se) :
            /\ StrLower(se[k].name) \in names
            /\ \A j \in 1..(k - 1) : StrLower(se[j].name) \notin names
    ELSE 0

\* first_matching_entity on the two pages' entities
FirstMatching(se, te, hit) ==
    IF hit = 0 THEN <<>>
    ELSE <<<<se[hit].name, EntityLookup(te, StrLower(se[hit].name))>>>>

FirstMatchingOf(se, te) == FirstMatching(se, te, FirstHit(se, LoweredNames(te)))

\* first_matching_entity: <<name, type>> in a one-element sequence, or <<>>
first_matching_entity(source, target) ==
    FirstMatchingOf(get_entities(source), get_entities(target))

(***************************************************************************)
(* anchors.py                                                              *)
(***************************************************************************)

\* _STOPWORDS
STOPWORDS ==
    { <<"t","h","e">>, <<"a","n","d">>, <<"o","r">>, <<"t","o">>, <<"o","f">>,
      <<"a">>, <<"i","n">>, <<"f","o","r">>, <<"o","n">>, <<"w","i","t","h">>,
      <<"a","t">>, <<"b","y">>, <<"a","n">>, <<"b","e">>, <<"i","s">> }

SingleWordVariants == {"entity", "brand", "tag"}

\* _VARIANT_PRIORITY.get(variant, 0.5), in hundredths
VARIANT_PRIORITY(variant) ==
    CASE variant = "entity" -> 100
      [] variant = "exact" -> 95
      [] variant = "partial" -> 80
      [] variant = "brand" -> 75
      [] variant = "tag" -> 70
      [] variant = "generic" -> 60
      [] OTHER -> 50

KnownVariants == {"entity", "exact", "partial", "brand", "tag", "generic"}

\* _valid_phrase
valid_phrase(phrase, variant) ==
    LET n == Len(Split(phrase))
    IN  IF variant \in SingleWordVariants THEN 1 <= n /\ n <= 5
        ELSE 1 < n /\ n <= 7

\* _valid_anchor_text counting the words only
valid_anchor_text_any_word(text, variant) ==
    LET words == Split(Strip(text))
    IN  IF variant \in SingleWordVariants
        THEN Len(words) = 1
        ELSE ~(Len(words) < 2 \/ Len(words) > 7)

\* _valid_anchor_text
valid_anchor_text(text, variant) ==
    LET words == Split(Strip(text))
    IN  IF variant \in SingleWordVariants
        THEN Len(words) = 1 /\ StrLower(words[1]) \notin STOPWORDS
        ELSE /\ ~(Len(words) < 2 \/ Len(words) > 7)
             /\ ~(\A i \in 1..Len(words) : StrLower(words[i]) \in STOPWORDS)

\* _head_terms
head_terms(title) ==
    LET words == Split(title)
    IN  IF Len(words) <= 4 THEN title ELSE JoinWords(SubSeq(words, 1, 4))

\* _tail_terms
tail_terms(title) ==
    LET words == Split(title)
    IN  IF Len(words) <= 4 THEN title
        ELSE JoinWords(SubSeq(words, Len(words) - 2, Len(words)))

\* anchors.py 43-52: the title and its head and tail terms
TitlePhrases(title) ==
    IF title = <<>> THEN {}
    ELSE {<<title, "exact">>}
         \cup (IF head_terms(title) /= <<>>
               THEN {<<head_terms(title), "partial">>} ELSE {})
         \cup (IF tail_terms(title) /= <<>>
               THEN {<<tail_terms(title), "partial">>} ELSE {})

\* anchors.py 54-57: the first matching entity, under its type if the type
\* is a known variant
EntityPhrases(match) ==
    IF match = <<>> THEN {}
    ELSE {<<match[1][1],
            IF match[1][2] \in KnownVariants THEN match[1][2] ELSE "entity">>}

\* anchors.py 59-60
HeadTermPhrases(terms) == {<<terms[i], "partial">> : i \in 1..Len(terms)}

\* anchors.py 61-62
BrandPhrases(brand) == IF brand /= <<>> THEN {<<brand, "brand">>} ELSE {}

\* anchors.py 66-72: a stripped tag is kept if it is not empty and the
\* target's lowered title or text holds it
TagKept(candidate, title_lower, body_lower) ==
    /\ candidate /= <<>>
    /\ ~(/\ ~Contains(title_lower, StrLower(candidate))
         /\ ~Contains(body_lower, StrLower(candidate)))

\* anchors.py 64-73
TagPhrases(tags, title_lower, body_lower) ==
    {<<ReplaceHyphen(Strip(tags[i])), "tag">> :
        i \in {k \in 1..Len(tags) : TagKept(Strip(tags[k]), title_lower, body_lower)}}

\* The set of (phrase, variant) pairs extract_candidate_anchors builds
\* before it validates them (anchors.py 42-73).
CandidatePhrases(source, target) ==
    TitlePhrases(Strip(target.title))
    \cup EntityPhrases(first_matching_entity(source, target))
    \cup HeadTermPhrases(MetaGet(target, "head_terms", <<>>))
    \cup BrandPhrases(MetaGet(target, "brand", <<>>))
    \cup TagPhrases(target.tags, StrLower(target.title), StrLower(target.text.head))

\* The validated pairs (anchors.py 75-84).
NormalizedPhrases(source, target) ==
    LET cleaned == {<<Strip(p[1]), p[2]>> : p \in CandidatePhrases(source, target)}
    IN  {p \in cleaned : p[1] /= <<>> /\ valid_phrase(p[1], p[2])}

\* The order in which a for loop runs over the set of phrases.  Python fixes
\* it for one process from the process's string-hash seed.
IterationOrder(S, seed) ==
    IF seed = 0 THEN SeqOfSet(S) ELSE Reverse(SeqOfSet(S))

\* anchors.py 93-99: the Anchor of each occurrence, its text cut from the
\* source at the offsets found in the lowered source
AnchorsAt(source, starts, length, variant) ==
    ListOf([k \in 1..Len(starts) |->
               [text |-> TextSlice(source.text, starts[k], starts[k] + length),
                start |-> starts[k],
                end |-> starts[k] + length,
                variant |-> variant]])

\* The Anchors of one phrase: one per occurrence whose text is a valid anchor.
PhraseAnchors(lowered, source, phrase, variant) ==
    SelectSeq(AnchorsAt(source, FindIter(StrLower(phrase), lowered, 1),
                        Len(StrLower(phrase)), variant),
              LAMBDA a : valid_anchor_text(a.text, a.variant))

RECURSIVE ConcatAll(_)
ConcatAll(seqs) ==
    IF seqs = <<>> THEN <<>> ELSE Head(seqs) \o ConcatAll(Tail(seqs))

\* anchors.py 86-99: the loop over the phrases, in their order
AnchorsOfPhrases(lowered, source, phrases) ==
    ConcatAll(ListOf([k \in 1..Len(phrases) |->
                  PhraseAnchors(lowered, source, phrases[k][1], phrases[k][2])]))

\* extract_candidate_anchors
extract_candidate_anchors(source, target, seed) ==
    AnchorsOfPhrases(StrLower(source.text.head), source,
                     IterationOrder(NormalizedPhrases(source, target), seed))

\* _anchor_score, times 10000 * text_length: exact, and text_length is the
\* same for all anchors of one call.
anchor_score(anchor, text_length) ==
    LET length == Len(Split(anchor.text))
    IN  VARIANT_PRIORITY(anchor.variant)
          * (70 * text_length
             + 20 * (text_length - anchor.start)
             + Max2(0, 10 - Abs(length - 4)) * text_length)

\* The dict scored keeping the first anchor of each (start, end), whatever
\* its score.
ScoredByPositionFirst(anchors, text_length) ==
    SelectSeq(ListOf([i \in 1..Len(anchors) |->
                         IF \A j \in 1..(i - 1) :
                                <<anchors[j].start, anchors[j].end>>
                                    /= <<anchors[i].start, anchors[i].end>>
                         THEN anchors[i] ELSE <<>>]),
              LAMBDA a : DOMAIN a /= {})

\* The values of the dict scored, in insertion order: per (start, end) the
\* first anchor of the highest score (anchors.py 116-121).
ScoredByPosition(anchors, text_length) ==
    LET firsts == SelectSeq(ListOf([i \in 1..Len(anchors) |-> i]),
                      LAMBDA i : \A j \in 1..(i - 1) :
                          <<anchors[j].start, anchors[j].end>>
                              /= <<anchors[i].start, anchors[i].end>>)
        same(i) == {j \in 1..Len(anchors) :
                       <<anchors[j].start, anchors[j].end>>
                           = <<anchors[i].start, anchors[i].end>>}
        best(i) == CHOOSE j \in same(i) :
                       \A k \in same(i) :
                           \/ anchor_score(anchors[j], text_length)
                                  > anchor_score(anchors[k], text_length)
                           \/ /\ anchor_score(anchors[j], text_length)
                                     = anchor_score(anchors[k], text_length)
                              /\ j <= k
    IN  ListOf([n \in 1..Len(firsts) |-> anchors[best(firsts[n])]])

RECURSIVE FirstPass(_, _, _, _, _, _)
\* The first loop of select_anchors (anchors.py 129-140) from ranked[i] on.
FirstPass(ranked, i, limit, exact_allowed, selected, exact_count) ==
    IF i > Len(ranked) \/ Len(selected) >= limit THEN selected
    ELSE LET anchor == ranked[i]
             used_texts == {StrLower(Strip(selected[k].text)) : k \in 1..Len(selected)}
         IN  IF StrLower(Strip(anchor.text)) \in used_texts
             THEN FirstPass(ranked, i + 1, limit, exact_allowed, selected, exact_count)
             ELSE IF anchor.variant = "exact" /\ exact_count >= exact_allowed
             THEN FirstPass(ranked, i + 1, limit, exact_allowed, selected, exact_count)
             ELSE FirstPass(ranked, i + 1, limit, exact_allowed,
                            Append(selected, anchor),
                            IF anchor.variant = "exact"
                            THEN exact_count + 1 ELSE exact_count)

RECURSIVE SecondPassAnyVariant(_, _, _, _, _)
\* The diversity loop without the test of the variant: any anchor that is
\* not selected and whose text is not used is added.
SecondPassAnyVariant(ranked, i, limit, selected, selected_variants) ==
    IF i > Len(ranked) \/ Len(selected) >= limit THEN selected
    ELSE IF ranked[i] \in Range(selected)
              \/ StrLower(Strip(ranked[i].text))
                     \in {StrLower(Strip(selected[k].text)) : k \in 1..Len(selected)}
         THEN SecondPassAnyVariant(ranked, i + 1, limit, selected, selected_variants)
         ELSE SecondPassAnyVariant(ranked, i + 1, limit,
                                   Append(selected, ranked[i]),
                                   selected_variants \cup {ranked[i].variant})

RECURSIVE SecondPass(_, _, _, _, _)
\* The diversity loop of select_anchors (anchors.py 145-155) from ranked[i] on.
SecondPass(ranked, i, limit, selected, selected_variants) ==
    IF i > Len(ranked) \/ Len(selected) >= limit THEN selected
    ELSE LET anchor == ranked[i]
             used_texts == {StrLower(Strip(selected[k].text)) : k \in 1..Len(selected)}
         IN  IF anchor \in Range(selected) \/ anchor.variant \in selected_variants
             THEN SecondPass(ranked, i + 1, limit, selected, selected_variants)
             ELSE IF StrLower(Strip(anchor.text)) \in used_texts
             THEN SecondPass(ranked, i + 1, limit, selected, selected_variants)
             ELSE SecondPass(ranked, i + 1, limit, Append(selected, anchor),
                             selected_variants \cup {anchor.variant})

\* anchors.py 158: selected.sort(key=lambda anchor: anchor.start)
ByStart(selected) ==
    SortedAscending(selected,
                    ListOf([i \in 1..Len(selected) |-> selected[i].start]))

\* anchors.py 123: sorted(scored.values(), key=score, reverse=True)
RankScored(scored, text_length) ==
    SortedDescending(scored,
                     ListOf([i \in 1..Len(scored) |->
                                anchor_score(scored[i], text_length)]))

\* anchors.py 116-123: the anchors of distinct positions, best score first
RankAnchors(anchors, text_length) ==
    RankScored(ScoredByPosition(anchors, text_length), text_length)

\* anchors.py 142-155: the diversity loop runs if the first left room
Diversify(ranked, limit, first) ==
    IF Len(first) < limit
    THEN SecondPass(ranked, 1, limit, first, {first[k].variant : k \in 1..Len(first)})
    ELSE first

\* anchors.py 128-155 without the cap on exact anchors: as many as the limit.
SelectRankedUncapped(ranked, limit) ==
    Diversify(ranked, limit, FirstPass(ranked, 1, limit, limit, <<>>, 0))

\* anchors.py 128-155
SelectRanked(ranked, limit) ==
    Diversify(ranked, limit,
              FirstPass(ranked, 1, limit, Max2(1, (limit * 4) \div 10), <<>>, 0))

\* select_anchors
select_anchors(source, anchors, config) ==
    IF anchors = <<>> THEN <<>>
    ELSE ByStart(SelectRanked(RankAnchors(anchors, Max2(TextLen(source.text), 1)),
                              ConfigGet(config, "max_anchors_per_target", 2)))

(***************************************************************************)
(* Text statistics.  BM25 and the cosine similarity are sums of logarithms *)
(* and square roots over the term counts of the corpus context; the model  *)
(* takes their values as measurements, keyed like the context's maps by    *)
(* the target's URL: the BM25 scores in hundredths, the cosine in          *)
(* thousandths.                                                            *)
(***************************************************************************)

\* set(tag.lower() for tag in page.tags)
LoweredTags(page) == {StrLower(page.tags[i]) : i \in 1..Len(page.tags)}

(***************************************************************************)
(* candidates.py                                                           *)
(***************************************************************************)

\* _business_filter; no URL of the model has a query string.
business_filter(source, target) ==
    /\ target.url /= source.url
    /\ ~(target.noindex \/ target.nofollow)
    /\ ~(target.canonical /= <<>> /\ source.canonical /= <<>>
         /\ target.canonical = source.canonical)
    /\ ~(MetaGet(target, "is_login", FALSE) \/ MetaGet(target, "is_cart", FALSE))
    /\ ~(MetaGet(target, "status_code", 200) >= 300)

\* _language_factor, in tenths
language_factor(source, target) ==
    IF source.lang = "" \/ target.lang = "" THEN 7
    ELSE IF source.lang = target.lang THEN 10
    ELSE IF LoweredTags(source) \cap LoweredTags(target) /= {} THEN 6 ELSE 1

\* any(keyword in title_lower for keyword in ("best", "top", "guide"))
TitleHasReviewKeyword(target) ==
    \/ Contains(StrLower(target.title), <<"b", "e", "s", "t">>)
    \/ Contains(StrLower(target.title), <<"t", "o", "p">>)
    \/ Contains(StrLower(target.title), <<"g", "u", "i", "d", "e">>)

\* _prefer_review_targets, in tenths
prefer_review_targets(source, target) ==
    IF source.type /= "review" THEN 10
    ELSE IF target.type \in {"category", "review"} /\ TitleHasReviewKeyword(target)
         THEN 12
    ELSE IF target.type = "product" THEN 11
    ELSE 10

\* _compute_tag_overlap, in thousandths
compute_tag_overlap(source, target) ==
    LET st == LoweredTags(source)
        tt == LoweredTags(target)
    IN  IF st = {} \/ tt = {} THEN 0
        ELSE (Cardinality(st \cap tt) * 1000) \div Cardinality(st \cup tt)

\* The recall score of generate_candidates (candidates.py 113-120), in
\* units of 10^-7.
recall_score(source, target, stats) ==
    (  35 * Min2((stats[target.url].title_bm25 * 10) \div 8, 1000)
     + 35 * Min2((stats[target.url].body_bm25 * 10) \div 12, 1000)
     + 20 * stats[target.url].semantic
     + 25 * entity_overlap(source, target)
     + 15 * compute_tag_overlap(source, target) )
    * language_factor(source, target) * prefer_review_targets(source, target)

\* candidates.py 126: scored.sort(key=lambda item: item[0], reverse=True)
ByRecall(source, scored, stats) ==
    SortedDescending(scored,
                     ListOf([i \in 1..Len(scored) |->
                                recall_score(source, scored[i], stats)]))

\* generate_candidates
generate_candidates(source, corpus, stats, config) ==
    Prefix(ByRecall(source,
                    SelectSeq(corpus, LAMBDA c :
                        /\ business_filter(source, c)
                        /\ ~(recall_score(source, c, stats) <= 500000)),
                    stats),
           ConfigGet(config, "max_candidates", 50))

(***************************************************************************)
(* features.py: every feature in thousandths                               *)
(***************************************************************************)

\* _clamp(value), value in thousandths
clamp(value) == Max2(Min2(value, 1000), 0)

\* _normalize(value / 100, scale)
normalize(value, scale) ==
    IF scale = 0 THEN 0 ELSE clamp((value * 10) \div scale)

\* _parse_timestamp: a timestamp is absent, malformed, or the hour it names.
parse_timestamp(value) ==
    IF value.kind = "iso" THEN <<value.hour>> ELSE <<>>

\* _freshness_score; now is the hour datetime.now() gives.
freshness_score(source, target, config, now) ==
    LET parsed == parse_timestamp(source.published_at)
        target_ts == parse_timestamp(target.published_at)
        source_ts == IF parsed = <<>> THEN <<now>> ELSE parsed
        \* timedelta.days: the whole days of the difference, rounded down
        delta_days == Abs((source_ts[1] - target_ts[1]) \div 24)
        freshness_window == ConfigGet(config, "freshness_half_life_days", 90)
    IN  IF target_ts = <<>> THEN 400
        ELSE clamp(Max2(100, ((freshness_window * 2 - delta_days) * 1000)
                               \div (freshness_window * 2)))

\* _already_links
already_links(source, target) ==
    LET outbound == MetaGet(source, "outbound_links", <<>>)
    IN  IF outbound /= <<>> THEN target.url \in Range(outbound) ELSE FALSE

\* _quality_score
quality_score(target, config) ==
    LET word_count == TokenCount(target.text)
        norm == ConfigGet(config, "quality_wordcount_norm", 800)
        scale == IF norm = 0 THEN 800 ELSE norm
        given == MetaGet(target, "content_score", 0)
        content_score == IF MetaGet(target, "has_schema", FALSE)
                         THEN Max2(given, 600) ELSE given
    IN  \* min(word_count / scale, 1.0) * 0.6 + content_score * 0.4
        clamp((Min2(word_count, scale) * 600) \div scale + (content_score * 4) \div 10)

FeatureNames ==
    <<"f_title_bm25", "f_body_bm25", "f_semantic", "f_entity_overlap",
      "f_tag_overlap", "f_taxonomy_distance", "f_authority", "f_click_depth",
      "f_conversion_intent", "f_duplicate_risk", "f_lang_match",
      "f_lang_mismatch", "f_quality", "f_freshness">>

\* compute_features
compute_features(source, target, stats, config, now) ==
    LET st == LoweredTags(source)
        tt == LoweredTags(target)
        taxonomy_source == MetaGet(source, "taxonomy", <<>>)
        taxonomy_target == MetaGet(target, "taxonomy", <<>>)
        scored_authority == MetaGet(target, "authority_score", 0)
        max_inlinks == ConfigGet(config, "max_inlinks", 50)
        authority ==
            IF scored_authority /= 0 THEN scored_authority
            ELSE (MetaGet(target, "inlinks", 0) * 1000)
                     \div (IF max_inlinks = 0 THEN 50 ELSE max_inlinks)
        depth == MetaGet(target, "click_depth", 3)
        max_depth == ConfigGet(config, "max_click_depth", 6)
        lang_match == IF source.lang /= "" /\ target.lang /= ""
                      THEN (IF source.lang = target.lang THEN 1000 ELSE 300)
                      ELSE 700
    IN  [f_title_bm25 |-> normalize(stats[target.url].title_bm25,
                                    ConfigGet(config, "title_bm25_norm", 8)),
         f_body_bm25 |-> normalize(stats[target.url].body_bm25,
                                   ConfigGet(config, "body_bm25_norm", 12)),
         f_semantic |-> clamp(stats[target.url].semantic),
         f_entity_overlap |-> clamp(entity_overlap(source, target)),
         f_tag_overlap |->
             IF st /= {} \/ tt /= {}
             THEN (Cardinality(st \cap tt) * 1000) \div Cardinality(st \cup tt)
             ELSE 0,
         f_taxonomy_distance |->
             IF taxonomy_source /= <<>> /\ taxonomy_target /= <<>>
             THEN (Cardinality(Range(taxonomy_source) \cap Range(taxonomy_target)) * 1000)
                      \div Max2(Len(taxonomy_source), Len(taxonomy_target))
             ELSE 0,
         f_authority |-> clamp(authority),
         f_click_depth |-> clamp(((max_depth - (depth - 1)) * 1000) \div max_depth),
         f_conversion_intent |->
             IF target.type \in {"review", "category", "product"} THEN 1000 ELSE 300,
         f_duplicate_risk |-> IF already_links(source, target) THEN 1000 ELSE 0,
         f_lang_match |-> lang_match,
         f_lang_mismatch |-> 1000 - lang_match,
         f_quality |-> clamp(quality_score(target, config)),
         f_freshness |-> freshness_score(source, target, config, now)]

(***************************************************************************)
(* filters.py                                                              *)
(***************************************************************************)

\* allow_candidate with the self-link check alone
allow_any_other_page(source, target, config) ==
    target.url /= source.url

\* allow_candidate without the language check
allow_any_language(source, target, config) ==
    IF target.url = source.url THEN FALSE
    ELSE IF target.noindex \/ target.nofollow THEN FALSE
    ELSE IF target.canonical /= <<>> /\ target.canonical /= target.url THEN FALSE
    ELSE IF MetaGet(target, "is_redirect", FALSE) THEN FALSE
    ELSE IF MetaGet(target, "status_code", 200) >= 300 THEN FALSE
    ELSE IF MetaGet(target, "is_paginated_duplicate", FALSE) THEN FALSE
    ELSE IF \/ Contains(target.url, <<"l", "o", "g", "i", "n">>)
            \/ Contains(target.url, <<"c", "a", "r", "t">>) THEN FALSE
    ELSE IF MetaGet(target, "blocked", FALSE) THEN FALSE
    ELSE TRUE

\* allow_candidate
allow_candidate(source, target, config) ==
    IF target.url = source.url THEN FALSE
    ELSE IF target.noindex \/ target.nofollow THEN FALSE
    ELSE IF target.canonical /= <<>> /\ target.canonical /= target.url THEN FALSE
    ELSE IF MetaGet(target, "is_redirect", FALSE) THEN FALSE
    ELSE IF MetaGet(target, "status_code", 200) >= 300 THEN FALSE
    ELSE IF MetaGet(target, "is_paginated_duplicate", FALSE) THEN FALSE
    ELSE IF \/ Contains(target.url, <<"l", "o", "g", "i", "n">>)
            \/ Contains(target.url, <<"c", "a", "r", "t">>) THEN FALSE
    ELSE IF MetaGet(target, "blocked", FALSE) THEN FALSE
    ELSE IF /\ source.lang /= "" /\ target.lang /= "" /\ source.lang /= target.lang
            /\ LoweredTags(source) \cap LoweredTags(target) = {}
         THEN ConfigGet(config, "allow_cross_language", FALSE)
    ELSE TRUE

\* risk_flags comparing the languages without asking whether both are known
risk_flags_any_difference(source, target, config) ==
    (IF source.lang /= target.lang THEN <<"lang_mismatch">> ELSE <<>>)
    \o (IF target.type = "product"
           /\ TokenCount(target.text) < ConfigGet(config, "product_wordcount_min", 250)
        THEN <<"thin_target">> ELSE <<>>)
    \o (IF already_links(source, target) THEN <<"dup_anchor">> ELSE <<>>)

\* risk_flags counting the words of a target of any type
risk_flags_thin_any_type(source, target, config) ==
    (IF source.lang /= "" /\ target.lang /= "" /\ source.lang /= target.lang
     THEN <<"lang_mismatch">> ELSE <<>>)
    \o (IF TokenCount(target.text) < ConfigGet(config, "product_wordcount_min", 250)
        THEN <<"thin_target">> ELSE <<>>)
    \o (IF already_links(source, target) THEN <<"dup_anchor">> ELSE <<>>)

\* risk_flags, as [flag for flag, value in risk_map.items() if value]
risk_flags(source, target, config) ==
    (IF source.lang /= "" /\ target.lang /= "" /\ source.lang /= target.lang
     THEN <<"lang_mismatch">> ELSE <<>>)
    \o (IF target.type = "product"
           /\ TokenCount(target.text) < ConfigGet(config, "product_wordcount_min", 250)
        THEN <<"thin_target">> ELSE <<>>)
    \o (IF already_links(source, target) THEN <<"dup_anchor">> ELSE <<>>)

(***************************************************************************)
(* rank.py.  Weights and penalties are in tenths, so the linear            *)
(* combination is in units of 10^-4; a score is in millionths.             *)
(***************************************************************************)

\* The result of a call that raised.
OverflowError == 0 - 1

\* math.exp(y) raises OverflowError above ln(DBL_MAX) = 709.7827...
ExpOverflows(y) == y > 7097827

\* 10^6 / (1 + exp(-k/2)) for k = -32 .. 32, rounded
LogisticTable ==
    <<0, 0, 0, 1, 1, 1, 2, 4, 6, 10, 17, 28, 45, 75, 123, 203, 335, 553,
      911, 1501, 2473, 4070, 6693, 10987, 17986, 29312, 47426, 75858,
      119203, 182426, 268941, 377541, 500000, 622459, 731059, 817574,
      880797, 924142, 952574, 970688, 982014, 989013, 993307, 995930,
      997527, 998499, 999089, 999447, 999665, 999797, 999877, 999925,
      999955, 999972, 999983, 999990, 999994, 999996, 999998, 999999,
      999999, 999999, 1000000, 1000000, 1000000>>

\* 10^6 / (1 + exp(-x)) where exp(-x) does not overflow: the table, read
\* linearly between its points; beyond it the value rounds to 0 or 10^6.
Sigmoid(x) ==
    IF x >= 160000 THEN 1000000
    ELSE IF x <= 0 - 160000 THEN 0
    ELSE LET k == ((x + 160000) \div 5000) + 1
             frac == (x + 160000) % 5000
         IN  LogisticTable[k]
               + ((LogisticTable[k + 1] - LogisticTable[k]) * (frac \div 50)) \div 100

\* logistic without the clamp of its argument
logistic_unclamped(x) ==
    IF ExpOverflows(0 - x) THEN OverflowError ELSE Sigmoid(x)

\* logistic
logistic(x) ==
    LET clamped == Max2(Min2(x, 600000), 0 - 600000)
    IN  IF ExpOverflows(0 - clamped) THEN OverflowError ELSE Sigmoid(clamped)

\* EngineConfig.feature_weight
feature_weight(config, feature) ==
    LET weights == ConfigGet(config, "weights", <<>>)
    IN  IF feature \in DOMAIN weights THEN weights[feature] ELSE 0

\* EngineConfig.penalty_weight
penalty_weight(config, feature) ==
    LET penalties == ConfigGet(config, "penalties", <<>>)
    IN  IF feature \in DOMAIN penalties THEN penalties[feature] ELSE 0

RECURSIVE LinearSum(_, _, _)
\* linear += weight * value, from the i-th feature on
LinearSum(features, config, i) ==
    IF i > Len(FeatureNames) THEN 0
    ELSE feature_weight(config, FeatureNames[i]) * features[FeatureNames[i]]
           + LinearSum(features, config, i + 1)

RECURSIVE PenaltySum(_, _, _)
\* penalty += config.penalty_weight(name) * value, from the i-th feature on
PenaltySum(features, config, i) ==
    IF i > Len(FeatureNames) THEN 0
    ELSE penalty_weight(config, FeatureNames[i]) * features[FeatureNames[i]]
           + PenaltySum(features, config, i + 1)

\* score_candidate
score_candidate(features, config) ==
    logistic(LinearSum(features, config, 1) - PenaltySum(features, config, 1))

\* The rank of a feature name among the names in string order, by which
\* the sort of score_reason breaks ties between equal contributions.
NameRank(name) ==
    CASE name = "f_authority" -> 1
      [] name = "f_body_bm25" -> 2
      [] name = "f_click_depth" -> 3
      [] name = "f_conversion_intent" -> 4
      [] name = "f_duplicate_risk" -> 5
      [] name = "f_entity_overlap" -> 6
      [] name = "f_freshness" -> 7
      [] name = "f_lang_match" -> 8
      [] name = "f_lang_mismatch" -> 9
      [] name = "f_quality" -> 10
      [] name = "f_semantic" -> 11
      [] name = "f_tag_overlap" -> 12
      [] name = "f_taxonomy_distance" -> 13
      [] name = "f_title_bm25" -> 14

\* _reason_fragment: <<qualifier, descriptor>> in a one-element sequence,
\* nothing for a feature without a descriptor.
reason_fragment(name, value) ==
    LET descriptor ==
            CASE name = "f_title_bm25" -> "strong title match"
              [] name = "f_body_bm25" -> "content overlap"
              [] name = "f_semantic" -> "semantic similarity"
              [] name = "f_entity_overlap" -> "shared entities"
              [] name = "f_tag_overlap" -> "tag overlap"
              [] name = "f_authority" -> "authoritative target"
              [] name = "f_click_depth" -> "shallow depth"
              [] name = "f_conversion_intent" -> "conversion intent"
              [] name = "f_freshness" -> "recent update"
              [] name = "f_lang_match" -> "language match"
              [] name = "f_quality" -> "high-quality target"
              [] OTHER -> ""
        qualifier == IF value >= 850 THEN "excellent"
                     ELSE IF value >= 600 THEN "strong" ELSE "good"
    IN  IF descriptor = "" THEN <<>> ELSE <<<<qualifier, descriptor>>>>

\* score_reason: the fragments of the features in top
ReasonFragments(features, top) ==
    ConcatAll(ListOf([k \in 1..Len(top) |->
                         reason_fragment(top[k], features[top[k]])]))

\* rank.py 40: weighted.sort(reverse=True) over (weight * value, name, value)
ByContribution(features, config, weighted) ==
    SortedDescending(weighted,
                     ListOf([i \in 1..Len(weighted) |->
                                feature_weight(config, weighted[i])
                                    * features[weighted[i]] * 16
                                    + NameRank(weighted[i])]))

\* score_reason with top_k = 2: the fragments that are joined by "; "
score_reason(features, config) ==
    ReasonFragments(features,
        Prefix(ByContribution(features, config,
                   SelectSeq(FeatureNames, LAMBDA n :
                       feature_weight(config, n) > 0 /\ features[n] > 0)),
               2))

(***************************************************************************)
(* placement.py                                                            *)
(***************************************************************************)

\* choose_placement
choose_placement(source, target, config) ==
    IF MetaGet(target, "is_pillar", FALSE) \/ target.type \in {"category", "pillar"}
    THEN "intro"
    ELSE IF MetaGet(target, "is_conversion_page", FALSE) THEN "body"
    ELSE IF MetaGet(target, "is_reference", FALSE) THEN "conclusion"
    ELSE "body"

\* max_links_for_page without the hard cap
max_links_uncapped(source, config) ==
    ConfigGet(config, "base_links_per_page", 3)
        + Max2(SplitCount(source.text), 1) \div 500

\* max_links_for_page
max_links_for_page(source, config) ==
    LET base == ConfigGet(config, "base_links_per_page", 3)
        words == Max2(SplitCount(source.text), 1)
        extra == words \div 500
        hard_cap == ConfigGet(config, "max_links_per_page", 12)
    IN  Min2(base + extra, hard_cap)

(***************************************************************************)
(* index.py                                                                *)
(***************************************************************************)

\* _is_parent
is_parent(source, target) ==
    LET source_tax == MetaGet(source, "taxonomy", <<>>)
        target_tax == MetaGet(target, "taxonomy", <<>>)
    IN  IF MetaGet(target, "is_pillar", FALSE) \/ MetaGet(target, "is_hub", FALSE)
        THEN TRUE
        ELSE IF target_tax /= <<>>
             THEN SubSeq(source_tax, 1, Min2(Len(target_tax), Len(source_tax)))
                      = target_tax
             ELSE FALSE

\* _is_sibling
is_sibling(source, target) ==
    LET parent_source == MetaGet(source, "parent_id", "")
        parent_target == MetaGet(target, "parent_id", "")
    IN  IF source.url = target.url THEN FALSE
        ELSE IF parent_source /= "" /\ parent_target /= ""
                /\ parent_source = parent_target THEN TRUE
        ELSE Range(source.tags) \cap Range(target.tags) /= {}
                 /\ source.type = target.type

\* _candidate_role
candidate_role(source, target) ==
    IF is_parent(source, target) THEN "parent"
    ELSE IF is_sibling(source, target) THEN "sibling"
    ELSE IF MetaGet(target, "is_money_page", FALSE) THEN "money"
    ELSE "other"

\* The record appended to evaluated (index.py 78-89).
ItemOf(source, target, config, features, score, anchors, flags) ==
    [target |-> target,
     features |-> features,
     score |-> score,
     anchors |-> anchors,
     risk_flags |-> flags,
     placement |-> choose_placement(source, target, config),
     reason |-> score_reason(features, config),
     role |-> candidate_role(source, target)]

\* index.py 64-89 without the test of line 70
EvaluateScoredAnchorless(source, target, config, features, score, selected_anchors, flags) ==
    IF score = OverflowError
    THEN <<ItemOf(source, target, config, features, score, <<>>, flags)>>
    ELSE IF score < ConfigGet(config, "score_floor", 400) * 1000 THEN <<>>
    ELSE IF "lang_mismatch" \in Range(flags) /\ features.f_semantic < 180 THEN <<>>
    ELSE <<ItemOf(source, target, config, features, score, selected_anchors, flags)>>

\* index.py 64-89, given what the calls of the pass return.  An item whose
\* score is OverflowError stands for the exception leaving the loop.
EvaluateScored(source, target, config, features, score, selected_anchors, flags) ==
    IF score = OverflowError
    THEN <<ItemOf(source, target, config, features, score, <<>>, flags)>>
    ELSE IF score < ConfigGet(config, "score_floor", 400) * 1000 THEN <<>>
    ELSE IF selected_anchors = <<>> THEN <<>>
    ELSE IF "lang_mismatch" \in Range(flags) /\ features.f_semantic < 180 THEN <<>>
    ELSE <<ItemOf(source, target, config, features, score, selected_anchors, flags)>>

\* index.py 63-89, given the features of the candidate
EvaluateFeatures(source, target, config, seed, features) ==
    EvaluateScored(source, target, config, features,
                   score_candidate(features, config),
                   select_anchors(source,
                                  extract_candidate_anchors(source, target, seed),
                                  config),
                   risk_flags(source, target, config))

\* One pass of the scoring loop of _evaluate_candidates (index.py 60-89):
\* the item appended to evaluated, in a one-element sequence, or nothing
\* when the candidate is skipped.
EvaluateOne(source, target, stats, config, now, seed) ==
    IF ~allow_candidate(source, target, config) THEN <<>>
    ELSE EvaluateFeatures(source, target, config, seed,
                          compute_features(source, target, stats, config, now))

\* index.py 91 and 132 without reverse=True
ByScoreAscending(items) ==
    SortedAscending(items, ListOf([i \in 1..Len(items) |-> items[i].score]))

\* index.py 91 and 132: sort(key=lambda item: item.score, reverse=True)
ByScore(items) ==
    SortedDescending(items, ListOf([i \in 1..Len(items) |-> items[i].score]))

\* _conflicts_with_existing comparing the texts as written, not lowered
conflicts_as_written(anchors, used_texts) ==
    \E i \in 1..Len(anchors) : anchors[i].text \in used_texts

\* _conflicts_with_existing
conflicts_with_existing(anchors, used_texts) ==
    \E i \in 1..Len(anchors) : StrLower(anchors[i].text) \in used_texts

\* The Suggestion built from an evaluated item (index.py 109-117, 275-283).
SuggestionOf(item) ==
    [target_url |-> item.target.url,
     reason |-> item.reason,
     score |-> item.score,
     anchors |-> item.anchors,
     placement_hint |-> item.placement,
     rel |-> "follow",
     risk_flags |-> item.risk_flags]

AnchorTexts(anchors) == {StrLower(anchors[i].text) : i \in 1..Len(anchors)}

\* _insert_or_replace with the comparison of the scores inverted
insert_or_replace_lower(existing, new_item, limit) ==
    IF Len(existing) < limit
    THEN [raised |-> FALSE, list |-> Append(existing, new_item)]
    ELSE IF existing = <<>>
    THEN [raised |-> TRUE, list |-> existing]
    ELSE LET lowest_index ==
                 CHOOSE i \in 1..Len(existing) :
                     \A j \in 1..Len(existing) :
                         \/ existing[i].score < existing[j].score
                         \/ existing[i].score = existing[j].score /\ i <= j
         IN  IF existing[lowest_index].score > new_item.score
             THEN [raised |-> FALSE,
                   list |-> [existing EXCEPT ![lowest_index] = new_item]]
             ELSE [raised |-> FALSE, list |-> existing]

\* _insert_or_replace.  min() of an empty range raises ValueError.
insert_or_replace(existing, new_item, limit) ==
    IF Len(existing) < limit
    THEN [raised |-> FALSE, list |-> Append(existing, new_item)]
    ELSE IF existing = <<>>
    THEN [raised |-> TRUE, list |-> existing]
    ELSE LET lowest_index ==
                 CHOOSE i \in 1..Len(existing) :
                     \A j \in 1..Len(existing) :
                         \/ existing[i].score < existing[j].score
                         \/ existing[i].score = existing[j].score /\ i <= j
         IN  IF existing[lowest_index].score < new_item.score
             THEN [raised |-> FALSE,
                   list |-> [existing EXCEPT ![lowest_index] = new_item]]
             ELSE [raised |-> FALSE, list |-> existing]

\* The candidates a backfill block may take: target and anchor texts unused.
Eligible(st, candidates) ==
    {i \in 1..Len(candidates) :
        /\ candidates[i].target.url \notin st.used_targets
        /\ ~conflicts_with_existing(candidates[i].anchors, st.used_anchor_texts)}

\* index.py 284-288, 306-310: the state after _insert_or_replace
Placed(st, suggestion, role, placed) ==
    IF placed.raised THEN [st EXCEPT !.raised = TRUE]
    ELSE [result |-> placed.list,
          used_targets |-> st.used_targets \cup {suggestion.target_url},
          used_anchor_texts |->
              st.used_anchor_texts \cup AnchorTexts(suggestion.anchors),
          selected_roles |-> st.selected_roles \cup {role},
          raised |-> FALSE]

\* The block takes the first eligible candidate and breaks.
TakeFirst(st, suggestion, role, limit) ==
    Placed(st, suggestion, role, insert_or_replace(st.result, suggestion, limit))

\* One of the two backfill blocks of _ensure_hub_and_sibling (index.py
\* 268-288 for parent, 290-310 for sibling).  st holds result, used_targets,
\* used_anchor_texts, selected_roles and raised.
EnsureRole(st, has_role, candidates, role, limit) ==
    IF st.raised \/ has_role \/ Eligible(st, candidates) = {} THEN st
    ELSE TakeFirst(st,
                   SuggestionOf(candidates[CHOOSE i \in Eligible(st, candidates) :
                                     \A j \in Eligible(st, candidates) : i <= j]),
                   role, limit)

\* return result[:limit]
Trimmed(st, limit) == [st EXCEPT !.result = Prefix(st.result, limit)]

\* _ensure_hub_and_sibling
ensure_hub_and_sibling(selected, sibling_candidates, parent_candidates, limit, used_targets, used_anchor_texts, selected_roles) ==
    Trimmed(EnsureRole(
                EnsureRole([result |-> selected,
                            used_targets |-> used_targets,
                            used_anchor_texts |-> used_anchor_texts,
                            selected_roles |-> selected_roles,
                            raised |-> FALSE],
                           "parent" \in selected_roles, parent_candidates,
                           "parent", limit),
                "sibling" \in selected_roles, sibling_candidates, "sibling", limit),
            limit)

(***************************************************************************)
(* The pages of the model.  Hours count from 1970-01-01T00:00Z.            *)
(***************************************************************************)

SourceBlog ==
    [url |-> <<"/", "s", "1">>,
     title |-> <<"A", "b", " ", "C", "d">>,
     text |-> [head |-> <<"A", "b", " ", "C", "d", " ", "E", "f", " ", "i", "s", " ", "o", "f", " ", "G", "h", " ", "E", "f", " ", "t", "o", " ", "K", "a", " ", "M", "e">>, pad |-> 0],
     lang |-> "en",
     tags |-> <<<<"a", "b">>>>,
     type |-> "blog",
     published_at |-> [kind |-> "iso", hour |-> 473352],
     canonical |-> <<"/", "s", "1">>,
     noindex |-> FALSE,
     nofollow |-> FALSE,
     metadata |->
         [outbound_links |-> <<<<"/", "t", "4">>>>, taxonomy |-> <<<<"a", "b">>, <<"c", "d">>>>, parent_id |-> "p1"]]

SourceDotted ==
    [url |-> <<"/", "s", "2">>,
     title |-> <<"G", "h", " ", "E", "f">>,
     text |-> [head |-> <<"I+", "I+", " ", "G", "h", " ", "E", "f">>, pad |-> 0],
     lang |-> "en",
     tags |-> <<<<"a", "b">>>>,
     type |-> "blog",
     published_at |-> [kind |-> "none", hour |-> 0],
     canonical |-> <<"/", "s", "2">>,
     noindex |-> FALSE,
     nofollow |-> FALSE,
     metadata |->
         [outbound_links |-> <<>>]]

SourceLong ==
    [url |-> <<"/", "s", "3">>,
     title |-> <<"A", "b", " ", "C", "d", " ", "E", "f">>,
     text |-> [head |-> <<"A", "b", " ", "C", "d", " ", "E", "f", " ", "o", "f", " ", "G", "h", " ", "E", "f", " ", "K", "a", " ", "M", "e">>, pad |-> 500],
     lang |-> "en",
     tags |-> <<<<"A", "b">>>>,
     type |-> "review",
     published_at |-> [kind |-> "malformed", hour |-> 0],
     canonical |-> <<"/", "s", "3">>,
     noindex |-> FALSE,
     nofollow |-> FALSE,
     metadata |->
         [outbound_links |-> <<>>, entities |-> <<[name |-> <<"K", "a">>, type |-> "brand"], [name |-> <<"G", "h", " ", "E", "f">>, type |-> "product"]>>]]

TargetHub ==
    [url |-> <<"/", "t", "1">>,
     title |-> <<"A", "b", " ", "C", "d", " ", "E", "f">>,
     text |-> [head |-> <<"A", "b", " ", "C", "d", " ", "E", "f", " ", "h", "u", "b">>, pad |-> 0],
     lang |-> "en",
     tags |-> <<<<"a", "b">>>>,
     type |-> "review",
     published_at |-> [kind |-> "iso", hour |-> 472392],
     canonical |-> <<"/", "t", "1">>,
     noindex |-> FALSE,
     nofollow |-> FALSE,
     metadata |->
         [is_pillar |-> TRUE, head_terms |-> <<<<"A", "b", " ", "C", "d">>>>, authority_score |-> 900]]

TargetSibling ==
    [url |-> <<"/", "t", "2">>,
     title |-> <<"G", "h", " ", "E", "f">>,
     text |-> [head |-> <<"G", "h", " ", "E", "f", " ", "a", "b">>, pad |-> 0],
     lang |-> "en",
     tags |-> <<<<"a", "b">>, <<"g", "h", "-", "e", "f">>>>,
     type |-> "blog",
     published_at |-> [kind |-> "iso", hour |-> 473100],
     canonical |-> <<"/", "t", "2">>,
     noindex |-> FALSE,
     nofollow |-> FALSE,
     metadata |->
         [inlinks |-> 20, parent_id |-> "p1"]]

TargetProduct ==
    [url |-> <<"/", "t", "3">>,
     title |-> <<"A", "b", " ", "C", "d">>,
     text |-> [head |-> <<"A", "b", " ", "C", "d">>, pad |-> 0],
     lang |-> "en",
     tags |-> <<>>,
     type |-> "product",
     published_at |-> [kind |-> "none", hour |-> 0],
     canonical |-> <<"/", "t", "3">>,
     noindex |-> FALSE,
     nofollow |-> FALSE,
     metadata |->
         [authority_score |-> 500, click_depth |-> 2]]

TargetMoney ==
    [url |-> <<"/", "t", "4">>,
     title |-> <<"K", "a", " ", "M", "e">>,
     text |-> [head |-> <<"K", "a", " ", "M", "e">>, pad |-> 300],
     lang |-> "en",
     tags |-> <<<<"m", "e">>>>,
     type |-> "product",
     published_at |-> [kind |-> "iso", hour |-> 473472],
     canonical |-> <<"/", "t", "4">>,
     noindex |-> FALSE,
     nofollow |-> FALSE,
     metadata |->
         [is_money_page |-> TRUE, brand |-> <<"K", "a">>, has_schema |-> TRUE, entities |-> <<[name |-> <<"K", "a">>, type |-> "brand"], [name |-> <<"g", "h", " ", "e", "f">>, type |-> "product"]>>]]

TargetTwin ==
    [url |-> <<"/", "t", "1">>,
     title |-> <<"G", "h", " ", "E", "f">>,
     text |-> [head |-> <<"G", "h", " ", "E", "f">>, pad |-> 0],
     lang |-> "en",
     tags |-> <<>>,
     type |-> "category",
     published_at |-> [kind |-> "iso", hour |-> 463752],
     canonical |-> <<"/", "t", "1">>,
     noindex |-> FALSE,
     nofollow |-> FALSE,
     metadata |->
         [content_score |-> 500]]

GuardNoindex ==
    [url |-> <<"/", "g", "1">>,
     title |-> <<"G", "h", " ", "E", "f">>,
     text |-> [head |-> <<"G", "h", " ", "E", "f", " ", "a", "b">>, pad |-> 0],
     lang |-> "en",
     tags |-> <<<<"a", "b">>>>,
     type |-> "blog",
     published_at |-> [kind |-> "iso", hour |-> 473352],
     canonical |-> <<"/", "g", "1">>,
     noindex |-> TRUE,
     nofollow |-> FALSE,
     metadata |->
         [status_code |-> 200]]

GuardNofollow ==
    [url |-> <<"/", "g", "2">>,
     title |-> <<"G", "h", " ", "E", "f">>,
     text |-> [head |-> <<"G", "h", " ", "E", "f", " ", "a", "b">>, pad |-> 0],
     lang |-> "en",
     tags |-> <<<<"a", "b">>>>,
     type |-> "blog",
     published_at |-> [kind |-> "iso", hour |-> 473352],
     canonical |-> <<"/", "g", "2">>,
     noindex |-> FALSE,
     nofollow |-> TRUE,
     metadata |->
         [status_code |-> 200]]

GuardCanonical ==
    [url |-> <<"/", "g", "3">>,
     title |-> <<"G", "h", " ", "E", "f">>,
     text |-> [head |-> <<"G", "h", " ", "E", "f", " ", "a", "b">>, pad |-> 0],
     lang |-> "en",
     tags |-> <<<<"a", "b">>>>,
     type |-> "blog",
     published_at |-> [kind |-> "iso", hour |-> 473352],
     canonical |-> <<"/", "t", "2">>,
     noindex |-> FALSE,
     nofollow |-> FALSE,
     metadata |->
         [status_code |-> 200]]

GuardRedirect ==
    [url |-> <<"/", "g", "4">>,
     title |-> <<"G", "h", " ", "E", "f">>,
     text |-> [head |-> <<"G", "h", " ", "E", "f", " ", "a", "b">>, pad |-> 0],
     lang |-> "en",
     tags |-> <<<<"a", "b">>>>,
     type |-> "blog",
     published_at |-> [kind |-> "iso", hour |-> 473352],
     canonical |-> <<"/", "g", "4">>,
     noindex |-> FALSE,
     nofollow |-> FALSE,
     metadata |->
         [status_code |-> 200, is_redirect |-> TRUE]]

GuardStatus ==
    [url |-> <<"/", "g", "5">>,
     title |-> <<"G", "h", " ", "E", "f">>,
     text |-> [head |-> <<"G", "h", " ", "E", "f", " ", "a", "b">>, pad |-> 0],
     lang |-> "en",
     tags |-> <<<<"a", "b">>>>,
     type |-> "blog",
     published_at |-> [kind |-> "iso", hour |-> 473352],
     canonical |-> <<"/", "g", "5">>,
     noindex |-> FALSE,
     nofollow |-> FALSE,
     metadata |->
         [status_code |-> 302]]

GuardPaginated ==
    [url |-> <<"/", "g", "6">>,
     title |-> <<"G", "h", " ", "E", "f">>,
     text |-> [head |-> <<"G", "h", " ", "E", "f", " ", "a", "b">>, pad |-> 0],
     lang |-> "en",
     tags |-> <<<<"a", "b">>>>,
     type |-> "blog",
     published_at |-> [kind |-> "iso", hour |-> 473352],
     canonical |-> <<"/", "g", "6">>,
     noindex |-> FALSE,
     nofollow |-> FALSE,
     metadata |->
         [status_code |-> 200, is_paginated_duplicate |-> TRUE]]

GuardLogin ==
    [url |-> <<"/", "l", "o", "g", "i", "n">>,
     title |-> <<"G", "h", " ", "E", "f">>,
     text |-> [head |-> <<"G", "h", " ", "E", "f", " ", "a", "b">>, pad |-> 0],
     lang |-> "en",
     tags |-> <<<<"a", "b">>>>,
     type |-> "blog",
     published_at |-> [kind |-> "iso", hour |-> 473352],
     canonical |-> <<"/", "l", "o", "g", "i", "n">>,
     noindex |-> FALSE,
     nofollow |-> FALSE,
     metadata |->
         [status_code |-> 200]]

GuardCart ==
    [url |-> <<"/", "c", "a", "r", "t", "/", "g">>,
     title |-> <<"G", "h", " ", "E", "f">>,
     text |-> [head |-> <<"G", "h", " ", "E", "f", " ", "a", "b">>, pad |-> 0],
     lang |-> "en",
     tags |-> <<<<"a", "b">>>>,
     type |-> "blog",
     published_at |-> [kind |-> "iso", hour |-> 473352],
     canonical |-> <<"/", "c", "a", "r", "t", "/", "g">>,
     noindex |-> FALSE,
     nofollow |-> FALSE,
     metadata |->
         [status_code |-> 200]]

GuardBlocked ==
    [url |-> <<"/", "g", "7">>,
     title |-> <<"G", "h", " ", "E", "f">>,
     text |-> [head |-> <<"G", "h", " ", "E", "f", " ", "a", "b">>, pad |-> 0],
     lang |-> "en",
     tags |-> <<<<"a", "b">>>>,
     type |-> "blog",
     published_at |-> [kind |-> "iso", hour |-> 473352],
     canonical |-> <<"/", "g", "7">>,
     noindex |-> FALSE,
     nofollow |-> FALSE,
     metadata |->
         [status_code |-> 200, blocked |-> TRUE]]

GuardForeign ==
    [url |-> <<"/", "g", "8">>,
     title |-> <<"G", "h", " ", "E", "f">>,
     text |-> [head |-> <<"G", "h", " ", "E", "f", " ", "a", "b">>, pad |-> 0],
     lang |-> "fr",
     tags |-> <<<<"c", "d">>>>,
     type |-> "blog",
     published_at |-> [kind |-> "iso", hour |-> 473352],
     canonical |-> <<"/", "g", "8">>,
     noindex |-> FALSE,
     nofollow |-> FALSE,
     metadata |->
         [status_code |-> 200]]

GuardForeignTagged ==
    [url |-> <<"/", "g", "9">>,
     title |-> <<"G", "h", " ", "E", "f">>,
     text |-> [head |-> <<"G", "h", " ", "E", "f", " ", "a", "b">>, pad |-> 0],
     lang |-> "fr",
     tags |-> <<<<"A", "B">>>>,
     type |-> "blog",
     published_at |-> [kind |-> "iso", hour |-> 473352],
     canonical |-> <<"/", "g", "9">>,
     noindex |-> FALSE,
     nofollow |-> FALSE,
     metadata |->
         [status_code |-> 200]]

GuardNoLang ==
    [url |-> <<"/", "g", "1", "0">>,
     title |-> <<"G", "h", " ", "E", "f">>,
     text |-> [head |-> <<"G", "h", " ", "E", "f", " ", "a", "b">>, pad |-> 0],
     lang |-> "",
     tags |-> <<<<"a", "b">>>>,
     type |-> "blog",
     published_at |-> [kind |-> "iso", hour |-> 473352],
     canonical |-> <<"/", "g", "1", "0">>,
     noindex |-> FALSE,
     nofollow |-> FALSE,
     metadata |->
         [status_code |-> 200]]

\* Pages of a dry run: a source that names an entity, a target found by
\* its brand and tag only, and a target found by its entity only.
SourceMixed ==
    [url |-> <<"/", "s", "4">>,
     title |-> <<"A", "b", " ", "C", "d">>,
     text |-> [head |-> <<"A", "b", " ", "C", "d", " ", "E", "f", " ", "i", "s", " ", "o", "f", " ", "G", "h", " ", "E", "f", " ", "t", "o", " ", "K", "a", " ", "M", "e">>, pad |-> 0],
     lang |-> "en",
     tags |-> <<<<"a", "b">>>>,
     type |-> "blog",
     published_at |-> [kind |-> "iso", hour |-> 473352],
     canonical |-> <<"/", "s", "4">>,
     noindex |-> FALSE,
     nofollow |-> FALSE,
     metadata |->
         [entities |-> <<[name |-> <<"G", "h">>, type |-> "product"]>>]]

TargetBrand ==
    [url |-> <<"/", "t", "5">>,
     title |-> <<"Z", "z">>,
     text |-> [head |-> <<"Z", "z", " ", "m", "e">>, pad |-> 0],
     lang |-> "en",
     tags |-> <<<<"m", "e">>>>,
     type |-> "product",
     published_at |-> [kind |-> "iso", hour |-> 473352],
     canonical |-> <<"/", "t", "5">>,
     noindex |-> FALSE,
     nofollow |-> FALSE,
     metadata |->
         [brand |-> <<"K", "a">>]]

TargetEntity ==
    [url |-> <<"/", "t", "6">>,
     title |-> <<"Y", "y">>,
     text |-> [head |-> <<"Y", "y">>, pad |-> 0],
     lang |-> "en",
     tags |-> <<>>,
     type |-> "blog",
     published_at |-> [kind |-> "iso", hour |-> 473352],
     canonical |-> <<"/", "t", "6">>,
     noindex |-> FALSE,
     nofollow |-> FALSE,
     metadata |->
         [entities |-> <<[name |-> <<"g", "h">>, type |-> "product"]>>]]

TextStats ==
    <<"/", "s", "1">> :> [title_bm25 |-> 500, body_bm25 |-> 800, semantic |-> 900]
    @@ <<"/", "s", "2">> :> [title_bm25 |-> 500, body_bm25 |-> 800, semantic |-> 900]
    @@ <<"/", "s", "3">> :> [title_bm25 |-> 500, body_bm25 |-> 800, semantic |-> 900]
    @@ <<"/", "t", "1">> :> [title_bm25 |-> 400, body_bm25 |-> 600, semantic |-> 500]
    @@ <<"/", "t", "2">> :> [title_bm25 |-> 300, body_bm25 |-> 400, semantic |-> 400]
    @@ <<"/", "t", "3">> :> [title_bm25 |-> 200, body_bm25 |-> 300, semantic |-> 300]
    @@ <<"/", "t", "4">> :> [title_bm25 |-> 200, body_bm25 |-> 200, semantic |-> 200]
    @@ <<"/", "s", "4">> :> [title_bm25 |-> 500, body_bm25 |-> 800, semantic |-> 900]
    @@ <<"/", "t", "5">> :> [title_bm25 |-> 300, body_bm25 |-> 400, semantic |-> 400]
    @@ <<"/", "t", "6">> :> [title_bm25 |-> 300, body_bm25 |-> 400, semantic |-> 400]
    @@ <<"/", "g", "1">> :> [title_bm25 |-> 300, body_bm25 |-> 400, semantic |-> 400]
    @@ <<"/", "g", "2">> :> [title_bm25 |-> 300, body_bm25 |-> 400, semantic |-> 400]
    @@ <<"/", "g", "3">> :> [title_bm25 |-> 300, body_bm25 |-> 400, semantic |-> 400]
    @@ <<"/", "g", "4">> :> [title_bm25 |-> 300, body_bm25 |-> 400, semantic |-> 400]
    @@ <<"/", "g", "5">> :> [title_bm25 |-> 300, body_bm25 |-> 400, semantic |-> 400]
    @@ <<"/", "g", "6">> :> [title_bm25 |-> 300, body_bm25 |-> 400, semantic |-> 400]
    @@ <<"/", "l", "o", "g", "i", "n">> :> [title_bm25 |-> 300, body_bm25 |-> 400, semantic |-> 400]
    @@ <<"/", "c", "a", "r", "t", "/", "g">> :> [title_bm25 |-> 300, body_bm25 |-> 400, semantic |-> 400]
    @@ <<"/", "g", "7">> :> [title_bm25 |-> 300, body_bm25 |-> 400, semantic |-> 400]
    @@ <<"/", "g", "8">> :> [title_bm25 |-> 800, body_bm25 |-> 1200, semantic |-> 900]
    @@ <<"/", "g", "9">> :> [title_bm25 |-> 300, body_bm25 |-> 400, semantic |-> 400]
    @@ <<"/", "g", "1", "0">> :> [title_bm25 |-> 300, body_bm25 |-> 400, semantic |-> 400]

(***************************************************************************)
(* Configurations (config.py).  Numbers keep the units of the operators    *)
(* that read them: weights and penalties in tenths, score_floor in         *)
(* thousandths.                                                            *)
(***************************************************************************)

\* DEFAULTS
DEFAULTS ==
    [max_candidates |-> 120,
     base_links_per_page |-> 3,
     max_links_per_page |-> 12,
     max_anchors_per_target |-> 2,
     weights |->
         [f_title_bm25 |-> 14, f_body_bm25 |-> 11, f_semantic |-> 12,
          f_entity_overlap |-> 15, f_tag_overlap |-> 9,
          f_taxonomy_distance |-> 7, f_authority |-> 8, f_click_depth |-> 7,
          f_conversion_intent |-> 6, f_freshness |-> 4, f_lang_match |-> 5,
          f_quality |-> 8],
     penalties |-> [f_duplicate_risk |-> 25, f_lang_mismatch |-> 10]]

\* A mapping with the keys of both, the override's value where both have
\* the key (dict.update).
Updated(base, override) ==
    [k \in DOMAIN base \cup DOMAIN override |->
        IF k \in DOMAIN override THEN override[k] ELSE base[k]]

\* One link per page whatever its length: the hard cap is below what the
\* base and the length of a long page add up to.
ConfigTight ==
    Updated(DEFAULTS, [base_links_per_page |-> 1, max_links_per_page |-> 1,
                       score_floor |-> 300])

\* A base of no link: the budget of a short page is 0.
ConfigNoBase ==
    Updated(DEFAULTS, [base_links_per_page |-> 0, max_anchors_per_target |-> 1])

\* Weights and penalties far from the defaults, and no score floor.
ConfigExtreme ==
    Updated(DEFAULTS,
            [base_links_per_page |-> 2,
             score_floor |-> 0,
             weights |-> [f_title_bm25 |-> 20000, f_semantic |-> 0 - 30,
                          f_authority |-> 8],
             penalties |-> [f_duplicate_risk |-> 10000, f_quality |-> 9000]])

\* No anchor per target: select_anchors returns nothing.
ConfigNoAnchors ==
    Updated(DEFAULTS, [max_anchors_per_target |-> 0])

ConfigCrossLanguage ==
    Updated(DEFAULTS, [allow_cross_language |-> TRUE, base_links_per_page |-> 1])

(***************************************************************************)
(* config.py as it runs: the dicts of the process are objects on a heap,   *)
(* DEFAULTS at address 1, and a value of a dict is a scalar or the address *)
(* of another dict, so that two dicts can share a third.  A parsed YAML    *)
(* document is a tree of its own, with no object in common with the heap.  *)
(***************************************************************************)

Scalar(v) == [kind |-> "scalar", value |-> v]

\* The address of a dict on the heap.
Ref(id) == [kind |-> "ref", id |-> id]

\* A mapping of a YAML document.
Dict(items) == [kind |-> "dict", items |-> items]

\* The module's global DEFAULTS and the two dicts it holds.
InitialHeap ==
    <<[k \in DOMAIN DEFAULTS |->
          IF k = "weights" THEN Ref(2)
          ELSE IF k = "penalties" THEN Ref(3)
          ELSE Scalar(DEFAULTS[k])],
      [f \in DOMAIN DEFAULTS.weights |-> Scalar(DEFAULTS.weights[f])],
      [f \in DOMAIN DEFAULTS.penalties |-> Scalar(DEFAULTS.penalties[f])]>>

\* base[key] = value
Store(h, id, key, value) ==
    [h EXCEPT ![id] = [k \in DOMAIN h[id] \cup {key} |->
                           IF k = key THEN value ELSE h[id][k]]]

\* isinstance(base.get(key), dict)
IsDictAt(h, id, key) == key \in DOMAIN h[id] /\ h[id][key].kind = "ref"

RECURSIVE ReplaceKeys(_, _, _, _)
\* base.update(override): every key of the override replaces the value of
\* the base, mappings too.
ReplaceKeys(h, base, override, keys) ==
    IF keys = {} THEN h
    ELSE LET key == CHOOSE k \in keys : TRUE
             value == override[key]
             merged ==
                 IF value.kind = "dict"
                 THEN Store(Append(h, value.items), base, key, Ref(Len(h) + 1))
                 ELSE Store(h, base, key, value)
         IN  ReplaceKeys(merged, base, override, keys \ {key})

\* merge_into without the recursion of lines 75-76
merge_into_flat(h, base, override) == ReplaceKeys(h, base, override, DOMAIN override)

RECURSIVE MergeKeys(_, _, _, _)
\* merge_into, lines 74-78, for the keys of the override not yet visited.  A
\* mapping that is stored as it is becomes an object of the heap; the
\* documents of the model nest no mapping inside such a mapping.
MergeKeys(h, base, override, keys) ==
    IF keys = {} THEN h
    ELSE LET key == CHOOSE k \in keys : TRUE
             value == override[key]
             merged ==
                 IF value.kind = "dict" /\ IsDictAt(h, base, key)
                 THEN MergeKeys(h, h[base][key].id, value.items, DOMAIN value.items)
                 ELSE IF value.kind = "dict"
                 THEN Store(Append(h, value.items), base, key, Ref(Len(h) + 1))
                 ELSE Store(h, base, key, value)
         IN  MergeKeys(merged, base, override, keys \ {key})

\* merge_into
merge_into(h, base, override) == MergeKeys(h, base, override, DOMAIN override)

\* load_config without lines 60-61: data shares weights and penalties with
\* DEFAULTS.
load_config_shared(h, path) ==
    LET data == Len(h) + 1
        copied == Append(h, h[1])
    IN  IF path.exists THEN merge_into(copied, data, path.user) ELSE copied

\* load_config, lines 59-66: the heap after the call; the raw dict of the
\* EngineConfig returned is the first object the call made, at Len(h) + 1.
\* path.exists is false for load_config(None) and for a path without a file;
\* path.user is what yaml.safe_load gave, {} for an empty file.
load_config(h, path) ==
    LET data == Len(h) + 1
        copied == Append(h, h[1])
        weights == Store(Append(copied, copied[copied[1].weights.id]),
                         data, "weights", Ref(Len(copied) + 1))
        penalties == Store(Append(weights, weights[weights[1].penalties.id]),
                           data, "penalties", Ref(Len(weights) + 1))
    IN  IF path.exists THEN merge_into(penalties, data, path.user) ELSE penalties

RECURSIVE Deep(_, _)
\* The value of a dict of the heap with the dicts it holds in place of their
\* addresses: what a reader of the dict sees.
Deep(h, id) ==
    [k \in DOMAIN h[id] |->
        IF h[id][k].kind = "ref" THEN Deep(h, h[id][k].id) ELSE h[id][k].value]

(***************************************************************************)
(* The state of one process that calls suggest_links.                      *)
(***************************************************************************)

VARIABLES
    source,             \* the page argument
    corpus,             \* the corpus argument
    config,             \* engine_config.raw
    hash_seed,          \* the process's string-hash seed
    clock,              \* the hour datetime.now() gives
    pc,                 \* where the call stands
    call,               \* 1 for the first call, 2 for its repetition
    candidates,         \* raw_candidates
    evaluated,          \* _evaluate_candidates: evaluated
    cursor,             \* the index of the greedy loop in evaluated
    link_budget,        \* _evaluate_candidates: link_budget
    selected,           \* _evaluate_candidates: selected
    used_targets,       \* _evaluate_candidates: used_targets
    used_anchor_texts,  \* _evaluate_candidates: used_anchor_texts
    selected_roles,     \* _evaluate_candidates: selected_roles
    result,             \* the list suggest_links returned
    raised,             \* the exception that ended the call, "" if none
    first_result,       \* what the first call returned or raised
    pages,              \* dry_run: the pages argument
    tally,              \* dry_run: its counters and lists, and the loop index
    metrics,            \* dry_run: the record returned
    heap,               \* config.py: the dicts of the process, DEFAULTS first
    loaded,             \* config.py: the calls of load_config so far
    throttle,           \* middleware.py: self.limit and self.window
    now,                \* middleware.py: the second time.time() gives
    cache,              \* middleware.py: the cache entry of the client and route
    handled,            \* middleware.py: the calls of get_response for the route
    last,               \* middleware.py: the last request and its response
    selecting,          \* anchors.py: one call of select_anchors
    linking,            \* services.py: one call of interlink_html
    applying,           \* one call of a helper function on its own
    workers             \* middleware.py: the requests handled concurrently

vars ==
    <<source, corpus, config, hash_seed, clock, pc, call, candidates,
      evaluated, cursor, link_budget, selected, used_targets,
      used_anchor_texts, selected_roles, result, raised, first_result,
      pages, tally, metrics, heap, loaded, throttle, now, cache, handled,
      last, selecting, linking, applying, workers>>

\* The state of the other entry points, which a call of suggest_links
\* leaves alone.
configs == <<heap, loaded>>

requests == <<throttle, now, cache, handled, last>>

helpers == <<applying, workers>>

picks == <<selecting, linking, helpers>>

others == <<configs, requests, picks>>

aux == <<pages, tally, metrics, others>>

inputs == <<source, corpus, config, hash_seed>>

locals ==
    <<candidates, evaluated, cursor, link_budget, selected, used_targets,
      used_anchor_texts, selected_roles>>

\* The longest corpus.
MaxCorpus == 2

\* The longest corpus of a process that calls twice.
MaxRepeatCorpus == 1

\* The longest corpus of guardrail pages.
MaxGuardCorpus == 2

\* The hour of the first call: 2024-03-01T06:00Z, in hours since 1970.
FirstCallHour == 474798

\* The hours that may pass between two calls: a day, thirty days.
TickHours == {24, 720}

Sources == {SourceBlog, SourceDotted, SourceLong}

Catalogue == {TargetHub, TargetSibling, TargetProduct, TargetMoney, TargetTwin, SourceBlog}

GuardCatalogue ==
    {TargetHub, GuardNoindex, GuardNofollow, GuardCanonical, GuardRedirect,
     GuardStatus, GuardPaginated, GuardLogin, GuardCart, GuardBlocked,
     GuardForeign, GuardForeignTagged, GuardNoLang}

Configs == {DEFAULTS, ConfigTight, ConfigNoBase, ConfigExtreme, ConfigNoAnchors}

HashSeeds == {0, 1}

\* All sequences of at most n pages of S.
Corpora(S, n) == UNION {[1..k -> S] : k \in 0..n}

\* No dry_run is under way.
NoDryRun ==
    /\ pages = <<>>
    /\ tally = <<>>
    /\ metrics = <<>>

\* No configuration was loaded.
NoConfigs ==
    /\ heap = InitialHeap
    /\ loaded = <<>>

\* No middleware was set up and no request came in.
NoRequests ==
    /\ throttle = <<>>
    /\ now = 0
    /\ cache = <<>>
    /\ handled = <<>>
    /\ last = <<>>

\* select_anchors was not called on its own.
NoSelection == selecting = <<>>

\* interlink_html was not called.
NoLinking == linking = <<>>

\* No helper function was called on its own, and no request is handled
\* concurrently with another.
NoHelpers ==
    /\ applying = <<>>
    /\ workers = <<>>

OthersIdle ==
    /\ NoConfigs
    /\ NoRequests
    /\ NoSelection
    /\ NoLinking
    /\ NoHelpers

Fresh ==
    /\ pc = "start"
    /\ candidates = <<>>
    /\ evaluated = <<>>
    /\ cursor = 1
    /\ link_budget = 0
    /\ selected = <<>>
    /\ used_targets = {}
    /\ used_anchor_texts = {}
    /\ selected_roles = {}
    /\ result = <<>>
    /\ raised = ""

Init ==
    /\ source \in Sources
    /\ corpus \in Corpora(Catalogue, MaxCorpus)
    /\ config \in Configs
    /\ hash_seed \in HashSeeds
    /\ clock = FirstCallHour
    /\ call = 1
    /\ first_result = <<>>
    /\ Fresh
    /\ NoDryRun
    /\ OthersIdle

\* suggest_links, lines 36-45: the context is built and the candidates
\* are generated.
GenerateCandidates ==
    /\ pc = "start"
    /\ candidates' = generate_candidates(source, corpus, TextStats, config)
    /\ pc' = "evaluate"
    /\ UNCHANGED <<inputs, clock, call, evaluated, cursor, link_budget, selected,
                   used_targets, used_anchor_texts, selected_roles, result,
                   raised, first_result>>
    /\ UNCHANGED aux

\* index.py 91-99, given the items of the scoring loop.
Evaluated(items) ==
    IF \E i \in 1..Len(items) : items[i].score = OverflowError
    THEN /\ raised' = "OverflowError"
         /\ pc' = "done"
         /\ UNCHANGED <<evaluated, link_budget>>
    ELSE /\ evaluated' = ByScore(items)
         /\ link_budget' = max_links_for_page(source, config)
         /\ pc' = "select"
         /\ UNCHANGED raised

\* _evaluate_candidates, lines 59-99: the scoring loop, the sort and the
\* budget.  An exception of score_candidate ends the call.
EvaluateCandidates ==
    /\ pc = "evaluate"
    /\ Evaluated(ConcatAll(ListOf([i \in 1..Len(candidates) |->
                     EvaluateOne(source, candidates[i], TextStats, config,
                                 clock, hash_seed)])))
    /\ UNCHANGED <<inputs, clock, call, candidates, cursor, selected,
                   used_targets, used_anchor_texts, selected_roles, result,
                   first_result>>
    /\ UNCHANGED aux

\* The greedy pass without the check of used_targets
GreedyStepAnyTarget ==
    /\ pc = "select"
    /\ cursor <= Len(evaluated)
    /\ ~(Len(selected) >= link_budget)
    /\ IF conflicts_with_existing(evaluated[cursor].anchors, used_anchor_texts)
       THEN UNCHANGED <<selected, used_targets, used_anchor_texts, selected_roles>>
       ELSE /\ selected' = Append(selected, SuggestionOf(evaluated[cursor]))
            /\ used_targets' = used_targets \cup {evaluated[cursor].target.url}
            /\ used_anchor_texts' =
                   used_anchor_texts \cup AnchorTexts(evaluated[cursor].anchors)
            /\ selected_roles' = selected_roles \cup {evaluated[cursor].role}
    /\ cursor' = cursor + 1
    /\ UNCHANGED <<inputs, clock, pc, call, candidates, evaluated, link_budget,
                   result, raised, first_result>>
    /\ UNCHANGED aux

\* One pass of the greedy loop of _evaluate_candidates, lines 101-121.
GreedyStep ==
    /\ pc = "select"
    /\ cursor <= Len(evaluated)
    /\ ~(Len(selected) >= link_budget)
    /\ LET item == evaluated[cursor]
       IN  IF \/ item.target.url \in used_targets
              \/ conflicts_with_existing(item.anchors, used_anchor_texts)
           THEN UNCHANGED <<selected, used_targets, used_anchor_texts, selected_roles>>
           ELSE /\ selected' = Append(selected, SuggestionOf(item))
                /\ used_targets' = used_targets \cup {item.target.url}
                /\ used_anchor_texts' = used_anchor_texts \cup AnchorTexts(item.anchors)
                /\ selected_roles' = selected_roles \cup {item.role}
    /\ cursor' = cursor + 1
    /\ UNCHANGED <<inputs, clock, pc, call, candidates, evaluated, link_budget,
                   result, raised, first_result>>
    /\ UNCHANGED aux

\* index.py 123-131: what _ensure_hub_and_sibling returned is assigned.
Backfilled(out) ==
    IF out.raised
    THEN /\ raised' = "ValueError"
         /\ pc' = "done"
         /\ UNCHANGED <<selected, used_targets, used_anchor_texts, selected_roles>>
    ELSE /\ selected' = out.result
         /\ used_targets' = out.used_targets
         /\ used_anchor_texts' = out.used_anchor_texts
         /\ selected_roles' = out.selected_roles
         /\ pc' = "sort"
         /\ UNCHANGED raised

\* The greedy loop ends, at the budget or at the end of evaluated, and
\* _ensure_hub_and_sibling runs (lines 98-99, 123-131).
EnsureHubAndSibling ==
    /\ pc = "select"
    /\ cursor > Len(evaluated) \/ Len(selected) >= link_budget
    /\ Backfilled(ensure_hub_and_sibling(selected,
           SelectSeq(evaluated, LAMBDA item : item.role = "sibling"),
           SelectSeq(evaluated, LAMBDA item : item.role = "parent"),
           link_budget, used_targets, used_anchor_texts, selected_roles))
    /\ UNCHANGED <<inputs, clock, call, candidates, evaluated, cursor,
                   link_budget, result, first_result>>
    /\ UNCHANGED aux

\* _evaluate_candidates, lines 132-133, and the return of suggest_links.
SortAndReturn ==
    /\ pc = "sort"
    /\ result' = ByScore(selected)
    /\ pc' = "done"
    /\ UNCHANGED <<inputs, clock, call, locals, raised, first_result>>
    /\ UNCHANGED aux

Next ==
    \/ GenerateCandidates
    \/ EvaluateCandidates
    \/ GreedyStep
    \/ EnsureHubAndSibling
    \/ SortAndReturn

Spec == Init /\ [][Next]_vars

(***************************************************************************)
(* Guardrails: a source in English and a corpus of pages each of which     *)
(* trips one check of allow_candidate, beside pages that trip none.        *)
(***************************************************************************)

GuardConfigs == {DEFAULTS, ConfigCrossLanguage}

InitGuard ==
    /\ source = SourceBlog
    /\ corpus \in Corpora(GuardCatalogue, MaxGuardCorpus)
    /\ config \in GuardConfigs
    /\ hash_seed \in HashSeeds
    /\ clock = FirstCallHour
    /\ call = 1
    /\ first_result = <<>>
    /\ Fresh
    /\ NoDryRun
    /\ OthersIdle

SpecGuard == InitGuard /\ [][Next]_vars

(***************************************************************************)
(* A process that calls suggest_links twice with the same arguments while  *)
(* the wall clock advances.                                                *)
(***************************************************************************)

\* What a call gave its caller: the list, or the exception.
Outcome == [raised |-> raised, result |-> result]

InitRepeat ==
    /\ source \in Sources
    /\ corpus \in Corpora(Catalogue, MaxRepeatCorpus)
    /\ config = DEFAULTS
    /\ hash_seed \in HashSeeds
    /\ clock = FirstCallHour
    /\ call = 1
    /\ first_result = <<>>
    /\ Fresh
    /\ NoDryRun
    /\ OthersIdle

\* Time passes between the two calls.
Tick ==
    /\ pc = "done"
    /\ call = 1
    /\ clock = FirstCallHour
    /\ \E h \in TickHours : clock' = clock + h
    /\ UNCHANGED <<inputs, pc, call, locals, result, raised, first_result>>
    /\ UNCHANGED aux

\* The caller keeps what the first call gave and calls again with the same
\* source, corpus and configuration, in the same process.
CallAgain ==
    /\ pc = "done"
    /\ call = 1
    /\ first_result' = Outcome
    /\ call' = 2
    /\ pc' = "start"
    /\ candidates' = <<>>
    /\ evaluated' = <<>>
    /\ cursor' = 1
    /\ link_budget' = 0
    /\ selected' = <<>>
    /\ used_targets' = {}
    /\ used_anchor_texts' = {}
    /\ selected_roles' = {}
    /\ result' = <<>>
    /\ raised' = ""
    /\ UNCHANGED <<inputs, clock>>
    /\ UNCHANGED aux

NextRepeat ==
    \/ Next
    \/ Tick
    \/ CallAgain

SpecRepeat == InitRepeat /\ [][NextRepeat]_vars


(***************************************************************************)
(* index.py, dry_run.  Rates and the diversity index are in thousandths,   *)
(* rounded down; mean scores are in millionths, as the scores are.         *)
(***************************************************************************)

\* The result of a division by zero.
ZeroDivisionError == 0 - 2

\* n / d, in thousandths
Ratio(n, d) == IF d = 0 THEN ZeroDivisionError ELSE (n * 1000) \div d

\* len(pages) without the fallback to 1
total_pages_unguarded(batch) == Len(batch)

\* dry_run, line 147: len(pages) or 1
total_pages(batch) == IF Len(batch) = 0 THEN 1 ELSE Len(batch)

\* dry_run, lines 148-155: the counters before the first page.
InitialTally(corpus_pages) ==
    [index |-> 1,
     pages_with_suggestions |-> 0,
     inbound_counts |-> [url \in {corpus_pages[i].url : i \in 1..Len(corpus_pages)} |-> 0],
     anchor_variants |-> <<>>,
     selected_scores |-> <<>>,
     rejected_scores |-> <<>>,
     duplicate_targets |-> 0,
     lang_mismatch_suggestions |-> 0,
     total_suggestions |-> 0]

\* The variants of the anchors of a list of suggestions, one per anchor.
VariantsOf(suggestions) ==
    ConcatAll(ListOf([i \in 1..Len(suggestions) |->
        ListOf([j \in 1..Len(suggestions[i].anchors) |->
            suggestions[i].anchors[j].variant])]))

\* dry_run, line 174: anchor_variants[anchor.variant] += 1 for every anchor;
\* a Counter gains a key the first time it is counted.
CountVariants(anchor_variants, variants) ==
    [v \in DOMAIN anchor_variants \cup Range(variants) |->
        (IF v \in DOMAIN anchor_variants THEN anchor_variants[v] ELSE 0)
        + Cardinality({i \in 1..Len(variants) : variants[i] = v})]

\* dry_run, lines 172: inbound_counts[url] = inbound_counts.get(url, 0) + 1
CountInbound(inbound_counts, suggestions) ==
    LET urls == {suggestions[i].target_url : i \in 1..Len(suggestions)}
    IN  [url \in DOMAIN inbound_counts \cup urls |->
            (IF url \in DOMAIN inbound_counts THEN inbound_counts[url] ELSE 0)
            + Cardinality({i \in 1..Len(suggestions) : suggestions[i].target_url = url})]

\* dry_run, lines 160-186: what one page adds to the counters, given what
\* _evaluate_candidates returned for it.
Tallied(t, suggestions, evaluated_items) ==
    LET selected_urls == {suggestions[i].target_url : i \in 1..Len(suggestions)}
        rejected == SelectSeq(evaluated_items,
                        LAMBDA item : item.target.url \notin selected_urls)
    IN  [index |-> t.index + 1,
         pages_with_suggestions |->
             t.pages_with_suggestions + (IF suggestions /= <<>> THEN 1 ELSE 0),
         inbound_counts |-> CountInbound(t.inbound_counts, suggestions),
         anchor_variants |-> CountVariants(t.anchor_variants, VariantsOf(suggestions)),
         selected_scores |->
             t.selected_scores
             \o ListOf([i \in 1..Len(suggestions) |-> suggestions[i].score]),
         rejected_scores |->
             t.rejected_scores
             \o ListOf([i \in 1..Len(rejected) |-> rejected[i].score]),
         duplicate_targets |->
             t.duplicate_targets
             + Cardinality({i \in 1..Len(suggestions) :
                        \E j \in 1..(i - 1) :
                            suggestions[j].target_url = suggestions[i].target_url}),
         lang_mismatch_suggestions |->
             t.lang_mismatch_suggestions
             + Cardinality({i \in 1..Len(suggestions) :
                        "lang_mismatch" \in Range(suggestions[i].risk_flags)}),
         total_suggestions |-> t.total_suggestions + Len(suggestions)]

\* _compute_orphan_rate
compute_orphan_rate(inbound_counts) ==
    LET total == IF DOMAIN inbound_counts = {} THEN 1
                 ELSE Cardinality(DOMAIN inbound_counts)
        orphans == Cardinality({url \in DOMAIN inbound_counts : inbound_counts[url] = 0})
    IN  Ratio(orphans, total)

\* _simulate_click_depth, lines 335-341: the depth of one page after the
\* run, in thousandths.
DepthAfter(page, inbound_counts) ==
    LET depth == MetaGet(page, "click_depth", 3) * 1000
        inbound == IF page.url \in DOMAIN inbound_counts
                   THEN inbound_counts[page.url] ELSE 0
    IN  IF inbound /= 0 THEN Max2(1000, depth - 500 * inbound) ELSE depth

RECURSIVE TotalDepth(_, _)
TotalDepth(corpus_pages, inbound_counts) ==
    IF corpus_pages = <<>> THEN 0
    ELSE DepthAfter(Head(corpus_pages), inbound_counts)
         + TotalDepth(Tail(corpus_pages), inbound_counts)

\* _simulate_click_depth
simulate_click_depth(corpus_pages, inbound_counts) ==
    IF corpus_pages = <<>> THEN 0
    ELSE TotalDepth(corpus_pages, inbound_counts) \div Len(corpus_pages)

\* math.log(n) for n = 1 .. 24, in millionths
LogTable ==
    <<0, 693147, 1098612, 1386294, 1609438, 1791759, 1945910, 2079442,
      2197225, 2302585, 2397895, 2484907, 2564949, 2639057, 2708050,
      2772589, 2833213, 2890372, 2944439, 2995732, 3044522, 3091042,
      3135494, 3178054>>

\* What _shannon_entropy returns in double precision for n variants that
\* were counted equally often, n = 2 .. 6: 1.0, 0.9999999999999998, 1.0,
\* 1.0000000000000002, 0.9999999999999999.  In thousandths, rounded down,
\* with the value above 1 kept above 1000.
EqualCountsEntropy == <<1000, 999, 1000, 1001, 999>>

RECURSIVE WeightedLogs(_, _)
\* The sum of count * log(count) over the keys of a Counter.
WeightedLogs(counter, keys) ==
    IF keys = {} THEN 0
    ELSE LET k == CHOOSE x \in keys : TRUE
         IN  counter[k] * LogTable[counter[k]] + WeightedLogs(counter, keys \ {k})

RECURSIVE SumCounts(_, _)
SumCounts(counter, keys) ==
    IF keys = {} THEN 0
    ELSE LET k == CHOOSE x \in keys : TRUE
         IN  counter[k] + SumCounts(counter, keys \ {k})

\* _shannon_entropy: -sum(p * log p) / log(len(counter)), where
\* -sum(p * log p) = log(total) - sum(count * log(count)) / total.
shannon_entropy(counter) ==
    LET keys == DOMAIN counter
        total == SumCounts(counter, keys)
        n == Cardinality(keys)
    IN  IF total = 0 THEN 0
        ELSE IF n <= 1 THEN 0
        ELSE IF \A k \in keys : counter[k] * n = total
        THEN EqualCountsEntropy[n - 1]
        ELSE ((LogTable[total] - WeightedLogs(counter, keys) \div total) * 1000)
             \div LogTable[n]

RECURSIVE SumScores(_)
SumScores(scores) ==
    IF scores = <<>> THEN 0 ELSE Head(scores) + SumScores(Tail(scores))

\* sum(scores) / len(scores) if scores else 0.0
MeanScore(scores) ==
    IF scores = <<>> THEN 0 ELSE SumScores(scores) \div Len(scores)

\* dry_run, lines 188-207: the record returned.
Metrics(t, batch, corpus_pages) ==
    [coverage |-> Ratio(t.pages_with_suggestions, total_pages(batch)),
     orphan_rate |-> compute_orphan_rate(t.inbound_counts),
     avg_click_depth_after |-> simulate_click_depth(corpus_pages, t.inbound_counts),
     anchor_diversity_index |-> shannon_entropy(t.anchor_variants),
     dup_target_rate |-> Ratio(t.duplicate_targets, total_pages(batch)),
     mean_score_selected |-> MeanScore(t.selected_scores),
     mean_score_rejected |-> MeanScore(t.rejected_scores),
     language_mismatch_rate |->
         IF t.total_suggestions /= 0
         THEN Ratio(t.lang_mismatch_suggestions, t.total_suggestions) ELSE 0,
     anchor_variant_counts |-> t.anchor_variants]

(***************************************************************************)
(* dry_run as a process: the loop over the batch runs the steps of         *)
(* suggest_links for each page and tallies what they return.  An exception *)
(* of a step ends dry_run as it ends suggest_links.                        *)
(***************************************************************************)

\* The longest batch of pages.
MaxBatch == 2

DrySources == {SourceMixed, SourceBlog, SourceDotted}

\* A corpus of none, of one target, of targets that bring five variants of
\* anchors, of two pages under one URL, of a page in another language, of
\* pages with a click depth.
DryCorpora ==
    {<<>>,
     <<TargetHub>>,
     <<TargetHub, TargetBrand, TargetEntity>>,
     <<TargetBrand, TargetEntity>>,
     <<TargetHub, TargetTwin>>,
     <<GuardForeignTagged, TargetHub>>,
     <<TargetProduct, TargetMoney>>}

DryConfigs == {DEFAULTS, ConfigTight, ConfigCrossLanguage, ConfigNoBase}

InitDryRun ==
    /\ pages \in Corpora(DrySources, MaxBatch)
    /\ corpus \in DryCorpora
    /\ config \in DryConfigs
    /\ hash_seed \in HashSeeds
    /\ clock = FirstCallHour
    /\ call = 1
    /\ first_result = <<>>
    /\ source = <<>>
    /\ pc = "batch"
    /\ candidates = <<>>
    /\ evaluated = <<>>
    /\ cursor = 1
    /\ link_budget = 0
    /\ selected = <<>>
    /\ used_targets = {}
    /\ used_anchor_texts = {}
    /\ selected_roles = {}
    /\ result = <<>>
    /\ raised = ""
    /\ tally = InitialTally(corpus)
    /\ metrics = <<>>
    /\ OthersIdle

\* dry_run, lines 157-164: the loop takes the next page of the batch.
NextPage ==
    /\ pc = "batch"
    /\ tally.index <= Len(pages)
    /\ source' = pages[tally.index]
    /\ pc' = "start"
    /\ candidates' = <<>>
    /\ evaluated' = <<>>
    /\ cursor' = 1
    /\ link_budget' = 0
    /\ selected' = <<>>
    /\ used_targets' = {}
    /\ used_anchor_texts' = {}
    /\ selected_roles' = {}
    /\ result' = <<>>
    /\ UNCHANGED <<corpus, config, hash_seed, clock, call, raised, first_result>>
    /\ UNCHANGED aux

\* dry_run, lines 166-186: the suggestions of the page are tallied.
TallyPage ==
    /\ pc = "done"
    /\ raised = ""
    /\ tally' = Tallied(tally, result, evaluated)
    /\ pc' = "batch"
    /\ UNCHANGED <<inputs, clock, call, locals, result, raised, first_result,
                   pages, metrics, others>>

\* dry_run, lines 188-207: after the last page the metrics are computed and
\* returned; a division by zero ends the call instead.
Returning(m) ==
    IF ZeroDivisionError \in {m.coverage, m.orphan_rate, m.dup_target_rate,
                              m.language_mismatch_rate}
    THEN raised' = "ZeroDivisionError" /\ UNCHANGED metrics
    ELSE metrics' = m /\ UNCHANGED raised

ReturnMetrics ==
    /\ pc = "batch"
    /\ tally.index > Len(pages)
    /\ Returning(Metrics(tally, pages, corpus))
    /\ pc' = "returned"
    /\ UNCHANGED <<inputs, clock, call, locals, result, first_result, pages,
                   tally, others>>

NextDryRun ==
    \/ NextPage
    \/ GenerateCandidates
    \/ EvaluateCandidates
    \/ GreedyStep
    \/ EnsureHubAndSibling
    \/ SortAndReturn
    \/ TallyPage
    \/ ReturnMetrics

SpecDryRun == InitDryRun /\ [][NextDryRun]_vars

(***************************************************************************)
(* A process that loads configurations and writes to what it loaded, as    *)
(* the tests do with engine_config.raw.                                    *)
(***************************************************************************)

\* The most calls of load_config.
MaxLoads == 2

\* load_config(None), or a path that names no file.
NoPath == [exists |-> FALSE, user |-> [k \in {} |-> Scalar(0)]]

\* A path to a file with the given document.
File(user) == [exists |-> TRUE, user |-> user]

\* An empty file; some keys of weights; some keys of penalties and a knob;
\* a weight DEFAULTS does not name and a knob it does not name; weights that
\* is no mapping; a mapping under a key DEFAULTS does not have.
Documents ==
    <<[k \in {} |-> Scalar(0)],
      [weights |-> Dict([f_title_bm25 |-> Scalar(20)])],
      [penalties |-> Dict([f_lang_mismatch |-> Scalar(30)]),
       max_links_per_page |-> Scalar(4)],
      [weights |-> Dict([f_new |-> Scalar(5)]), score_floor |-> Scalar(300)],
      [weights |-> Scalar(0)],
      [extras |-> Dict([a |-> Scalar(1)])]>>

Paths == {NoPath} \cup {File(Documents[i]) : i \in 1..Len(Documents)}

\* engine_config.raw[key] = value
RawWrites == {<<"max_links_per_page", 2>>}

\* engine_config.raw[map][feature] = value
NestedWrites ==
    {<<"weights", "f_title_bm25", 99>>, <<"penalties", "f_duplicate_risk", 0>>}

\* No call of suggest_links or dry_run is under way.
EngineIdle ==
    /\ source = <<>>
    /\ corpus = <<>>
    /\ config = DEFAULTS
    /\ hash_seed = 0
    /\ clock = FirstCallHour
    /\ call = 1
    /\ first_result = <<>>
    /\ pc = "idle"
    /\ candidates = <<>>
    /\ evaluated = <<>>
    /\ cursor = 1
    /\ link_budget = 0
    /\ selected = <<>>
    /\ used_targets = {}
    /\ used_anchor_texts = {}
    /\ selected_roles = {}
    /\ result = <<>>
    /\ raised = ""
    /\ NoDryRun

engine ==
    <<inputs, clock, pc, call, locals, result, raised, first_result, pages,
      tally, metrics>>

InitConfig ==
    /\ EngineIdle
    /\ NoHelpers
    /\ NoRequests
    /\ NoSelection
    /\ NoLinking
    /\ heap = InitialHeap
    /\ loaded = <<>>

\* load_config(path): the call is recorded with the address of the raw dict
\* of the EngineConfig it returned.
LoadConfig ==
    /\ Len(loaded) < MaxLoads
    /\ \E path \in Paths :
          /\ heap' = load_config(heap, path)
          /\ loaded' = Append(loaded, [path |-> path, raw |-> Len(heap) + 1])
    /\ UNCHANGED <<engine, picks, requests>>

\* A write to the raw dict of a returned EngineConfig, as in test_limits.py
\* 11-13.
WriteRaw ==
    /\ \E i \in 1..Len(loaded), w \in RawWrites :
          heap' = Store(heap, loaded[i].raw, w[1], Scalar(w[2]))
    /\ UNCHANGED <<engine, picks, loaded, requests>>

\* A write into the weights or the penalties of a returned EngineConfig.
WriteNested ==
    /\ \E i \in 1..Len(loaded), w \in NestedWrites :
          /\ IsDictAt(heap, loaded[i].raw, w[1])
          /\ heap' = Store(heap, heap[loaded[i].raw][w[1]].id, w[2], Scalar(w[3]))
    /\ UNCHANGED <<engine, picks, loaded, requests>>

NextConfig ==
    \/ LoadConfig
    \/ WriteRaw
    \/ WriteNested

SpecConfig == InitConfig /\ [][NextConfig]_vars

(***************************************************************************)
(* middleware.py: SlidingWindowRateThrottle before one handler, and the    *)
(* requests of one client, one after another.  Time is in whole seconds.   *)
(* A route name is the sequence of its namespace and its name.             *)
(***************************************************************************)

\* The most requests of the client.
MaxRequests == 4

\* The last second of the run.
MaxTime == 4

\* settings.py 259-264
THROTTLED_ROUTES ==
    {<<"interlinker", "interlink">>, <<"interlinker", "sitemap_upload">>,
     <<"interlinker", "signup">>, <<"login">>}

\* settings.py 265, without the environment variable
THROTTLE_LIMIT == 60

\* settings.py 266, without the environment variable
THROTTLE_WINDOW == 60

\* __init__, lines 28-29: limit or settings.THROTTLE_LIMIT, and the same
\* for the window; 0 stands for None too.
SlidingWindowRateThrottle(limit, window) ==
    [limit |-> IF limit = 0 THEN THROTTLE_LIMIT ELSE limit,
     window |-> IF window = 0 THEN THROTTLE_WINDOW ELSE window]

\* The requests of the client: a method, and the resolver_match, whose name
\* is "" when the request was not resolved.
Requests ==
    {[method |-> "GET", namespace |-> "interlinker", url_name |-> "interlink"],
     [method |-> "POST", namespace |-> "interlinker", url_name |-> "interlink"],
     [method |-> "PUT", namespace |-> "interlinker", url_name |-> "interlink"],
     [method |-> "GET", namespace |-> "interlinker", url_name |-> "home"],
     [method |-> "POST", namespace |-> "", url_name |-> ""]}

\* __call__, line 41
RouteName(request) ==
    IF request.namespace /= "" THEN <<request.namespace, request.url_name>>
    ELSE <<request.url_name>>

\* The route the client's requests are counted for.
ThrottledRoute == <<"interlinker", "interlink">>

\* cache.get(cache_key, []): the entry, unless its timeout has passed.
CacheGet(entry, time) ==
    IF DOMAIN entry /= {} /\ time < entry.expires THEN entry.value ELSE <<>>

\* __call__, line 49
InWindow(bucket, time, window) ==
    SelectSeq(bucket, LAMBDA timestamp : timestamp > time - window)

\* The check of line 51 with > for >=
over_limit_late(bucket, limit) == Len(bucket) > limit

\* __call__, line 51
over_limit(bucket, limit) == Len(bucket) >= limit

\* __call__: the response to a request at the given time: its status,
\* whether get_response was called, and the cache entry afterwards.
Respond(request, time, entry, t) ==
    IF request.method \notin {"GET", "POST"}
    THEN [status |-> 200, called |-> TRUE, entry |-> entry]
    ELSE IF request.url_name = ""
    THEN [status |-> 200, called |-> TRUE, entry |-> entry]
    ELSE IF RouteName(request) \notin THROTTLED_ROUTES
    THEN [status |-> 200, called |-> TRUE, entry |-> entry]
    ELSE LET bucket == InWindow(CacheGet(entry, time), time, t.window)
         IN  IF over_limit(bucket, t.limit)
             THEN [status |-> 429, called |-> FALSE, entry |-> entry]
             ELSE [status |-> 200, called |-> TRUE,
                   entry |-> [value |-> Append(bucket, time),
                              expires |-> time + t.window]]

InitThrottle ==
    /\ EngineIdle
    /\ NoHelpers
    /\ NoConfigs
    /\ NoSelection
    /\ NoLinking
    /\ throttle \in {SlidingWindowRateThrottle(limit, window) :
                        limit \in {0, 1, 2}, window \in {2, 3}}
    /\ now = 0
    /\ cache = <<>>
    /\ handled = <<>>
    /\ last = <<>>

\* Time passes between two requests.
Elapse ==
    /\ now < MaxTime
    /\ now' = now + 1
    /\ UNCHANGED <<engine, picks, configs, throttle, cache, handled, last>>

\* The number of requests so far.
RequestNumber == IF DOMAIN last = {} THEN 0 ELSE last.number

\* What a request leaves behind, given the response to it.
Answered(request, response) ==
    /\ cache' = response.entry
    /\ handled' =
           IF response.called /\ request.url_name /= ""
              /\ RouteName(request) = ThrottledRoute
           THEN Append(handled, [at |-> now, method |-> request.method])
           ELSE handled
    /\ last' = [number |-> RequestNumber + 1,
                request |-> request,
                status |-> response.status,
                called |-> response.called]

\* __call__, lines 33-56, for one request.
Request ==
    /\ RequestNumber < MaxRequests
    /\ \E request \in Requests :
          Answered(request, Respond(request, now, cache, throttle))
    /\ UNCHANGED <<engine, picks, configs, throttle, now>>

NextThrottle ==
    \/ Elapse
    \/ Request

SpecThrottle == InitThrottle /\ [][NextThrottle]_vars

(***************************************************************************)
(* services.py: interlink_html.  The model takes the tree BeautifulSoup    *)
(* parses from the html: its text nodes in document order, each with the   *)
(* block tags (p, li, blockquote) among its ancestors and with whether an  *)
(* ancestor is one of SKIP_TAGS, and the block tags in the order find_all  *)
(* gives them.  Keywords are strings of characters, URLs are opaque.       *)
(***************************************************************************)

\* The characters of the model in the order of their code points.
CodePointOrder ==
    <<" ", "-", "A", "B", "C", "D", "E", "F", "G", "H", "K", "M", "a", "b",
      "c", "d", "e", "f", "g", "h", "i", "k", "m", "n", "o", "r", "s", "t",
      "y", "z", DottedI, CombiningDot>>

\* The place of a character in the order of the code points.
CodePointRank(c) ==
    CHOOSE i \in 1..Len(CodePointOrder) : CodePointOrder[i] = c

RECURSIVE StrBefore(_, _)
\* a < b for two str
StrBefore(a, b) ==
    IF b = <<>> THEN FALSE
    ELSE IF a = <<>> THEN TRUE
    ELSE IF Head(a) /= Head(b)
         THEN CodePointRank(Head(a)) < CodePointRank(Head(b))
         ELSE StrBefore(Tail(a), Tail(b))

\* _normalize_term: re.sub(r"\s+", " ", term.strip().lower())
normalize_term(term) == JoinWords(Split(StrLower(Strip(term))))

\* _clean_display_term: re.sub(r"\s+", " ", term.strip())
clean_display_term(term) == JoinWords(Split(Strip(term)))

\* _TermMatcher; the pattern is the display term between word boundaries,
\* searched by Search below.
TermMatcher(display, url, priority) ==
    [key |-> normalize_term(display),
     url |-> url,
     display_term |-> display,
     priority |-> priority]

\* The keys of a list of matchers (seen_keys).
KeysOf(matchers) == {matchers[i].key : i \in 1..Len(matchers)}

RECURSIVE AddMatchers(_, _, _, _)
\* The loops of lines 232-241 and 253-259 from items[i] on: items are pairs
\* of a term and a URL, a term of an empty display or of a key seen is
\* passed over.
AddMatchers(items, i, priority, matchers) ==
    IF i > Len(items) THEN matchers
    ELSE IF clean_display_term(items[i][1]) = <<>>
              \/ normalize_term(clean_display_term(items[i][1])) \in KeysOf(matchers)
         THEN AddMatchers(items, i + 1, priority, matchers)
         ELSE AddMatchers(items, i + 1, priority,
                          Append(matchers,
                                 TermMatcher(clean_display_term(items[i][1]),
                                             items[i][2], priority)))

\* The key of the sort of line 251, (-len(display), display), as an order.
SlugBefore(a, b) ==
    \/ Len(a) > Len(b)
    \/ Len(a) = Len(b) /\ StrBefore(a, b)

\* Lines 244-251: the slugs of non-empty display, cleaned, longest first
\* and then by code points; the sort is stable.
Sortable(slug_to_url) ==
    LET cleaned == ListOf([i \in 1..Len(slug_to_url) |->
                              <<clean_display_term(slug_to_url[i][1]),
                                slug_to_url[i][2]>>])
        kept == SelectSeq(cleaned, LAMBDA item : item[1] /= <<>>)
        n == Len(kept)
        place == ListOf([i \in 1..n |-> Cardinality({j \in 1..n :
                        \/ SlugBefore(kept[j][1], kept[i][1])
                        \/ kept[j][1] = kept[i][1] /\ j < i}) + 1])
    IN  ListOf([r \in 1..n |-> kept[CHOOSE i \in 1..n : place[i] = r]])

\* _build_term_matchers with the slugs ahead of the priority pairs.
build_term_matchers_slugs_first(slug_to_url, priority_pairs) ==
    AddMatchers(priority_pairs, 1, TRUE,
                AddMatchers(Sortable(slug_to_url), 1, FALSE, <<>>))

\* _build_term_matchers; slug_to_url is the dict as the list of its items
\* in insertion order.
build_term_matchers(slug_to_url, priority_pairs) ==
    AddMatchers(Sortable(slug_to_url), 1, FALSE,
                AddMatchers(priority_pairs, 1, TRUE, <<>>))

\* The character re.IGNORECASE compares: U+0130 matches "i" and "I".
FoldChar(c) == IF c = DottedI THEN "i" ELSE LowerChar(c)[1]

\* WORD_BOUNDARY with re.IGNORECASE at the 1-based place i of the text: the
\* display term letter by letter whatever the case, no character of
\* [A-Za-z0-9_] before or after it (with IGNORECASE the class holds U+0130).
MatchesAt(display, text, i) ==
    /\ i + Len(display) - 1 <= Len(text)
    /\ \A k \in 1..Len(display) :
          FoldChar(text[i + k - 1]) = FoldChar(display[k])
    /\ i = 1 \/ ~IsWordChar(text[i - 1])
    /\ i + Len(display) > Len(text) \/ ~IsWordChar(text[i + Len(display)])

\* matcher.pattern.search(original): the 1-based start of the leftmost
\* match, 0 if there is none.
Search(display, text) ==
    IF \E i \in 1..Len(text) : MatchesAt(display, text, i)
    THEN CHOOSE i \in 1..Len(text) :
             /\ MatchesAt(display, text, i)
             /\ \A j \in 1..(i - 1) : ~MatchesAt(display, text, j)
    ELSE 0

\* _extract_context_snippet for the match of length chars at the 1-based
\* place at, with the window of 45 characters.
extract_context_snippet(text, at, length) ==
    JoinWords(Split(Strip(SubSeq(text, Max2(0, at - 1 - 45) + 1,
                                 Min2(Len(text), at - 1 + length + 45)))))

\* LinkInsertion
LinkInsertion(term, url, priority, context) ==
    [term |-> term, url |-> url, priority |-> priority, context |-> context]

\* A text node: its text, whether _should_skip holds for it, the block tags
\* above it, and for the text of an anchor interlink_html made the href and
\* the data-source of the anchor.
TextNode(id, text, skip, blocks) ==
    [id |-> id, text |-> text, skip |-> skip, blocks |-> blocks,
     href |-> "", data_source |-> ""]

\* Lines 384-401: the pieces that take the place of the text node, the text
\* before the match if there is any, the new anchor, the text after the
\* match if there is any.
Pieces(node, matcher, at, next_id) ==
    LET length == Len(matcher.display_term)
        before == SubSeq(node.text, 1, at - 1)
        after == SubSeq(node.text, at + length, Len(node.text))
    IN  (IF before = <<>> THEN <<>>
         ELSE <<TextNode(next_id, before, FALSE, node.blocks)>>)
        \o <<[id |-> next_id + 1,
              text |-> SubSeq(node.text, at, at + length - 1),
              skip |-> TRUE,
              blocks |-> node.blocks,
              href |-> matcher.url,
              data_source |-> IF matcher.priority THEN "priority" ELSE "auto"]>>
        \o (IF after = <<>> THEN <<>>
            ELSE <<TextNode(next_id + 2, after, FALSE, node.blocks)>>)

\* The index of the node of an id in the tree.
IndexOf(nodes, id) == CHOOSE i \in 1..Len(nodes) : nodes[i].id = id

\* Lines 384-417: the state of the call after the matcher linked the node.
Linked(st, node, matcher, at) ==
    [nodes |-> SubSeq(st.nodes, 1, IndexOf(st.nodes, node.id) - 1)
                   \o Pieces(node, matcher, at, st.next_id)
                   \o SubSeq(st.nodes, IndexOf(st.nodes, node.id) + 1,
                             Len(st.nodes)),
     next_id |-> st.next_id + 3,
     linked_keys |-> st.linked_keys \cup {matcher.key},
     link_count |-> st.link_count + 1,
     block_links |-> st.block_links + 1,
     inserted |-> Append(st.inserted,
                         LinkInsertion(matcher.display_term, matcher.url,
                                       matcher.priority,
                                       extract_context_snippet(
                                           node.text, at,
                                           Len(matcher.display_term))))]

RECURSIVE TryMatchers(_, _, _, _, _)
\* Lines 380-419 for matchers[m], at being what its search gave.
TryMatch(st, node, matchers, m, per_block_limit, at) ==
    IF at = 0 THEN TryMatchers(st, node, matchers, m + 1, per_block_limit)
    ELSE Linked(st, node, matchers[m], at)

\* The loop of lines 374-419 from matchers[m] on: the first matcher that
\* is not linked yet, is within the budget of the block and matches links
\* the node, and the loop ends.
TryMatchers(st, node, matchers, m, per_block_limit) ==
    IF m > Len(matchers) THEN st
    ELSE IF matchers[m].key \in st.linked_keys
         THEN TryMatchers(st, node, matchers, m + 1, per_block_limit)
    ELSE IF ~matchers[m].priority /\ st.block_links >= per_block_limit
         THEN TryMatchers(st, node, matchers, m + 1, per_block_limit)
    ELSE TryMatch(st, node, matchers, m, per_block_limit,
                  Search(matchers[m].display_term, node.text))

\* Lines 366-419 for one text node.
VisitNode(st, node, matchers, per_block_limit) ==
    IF node.skip \/ Strip(node.text) = <<>> THEN st
    ELSE TryMatchers(st, node, matchers, 1, per_block_limit)

RECURSIVE VisitNodes(_, _, _, _, _, _)
\* The loop of lines 362-419 over list(block.descendants), the text nodes
\* the block had when its turn came, from ids[k] on.
VisitNodes(st, ids, k, matchers, max_links, per_block_limit) ==
    IF k > Len(ids) \/ st.link_count >= max_links THEN st
    ELSE VisitNodes(VisitNode(st, st.nodes[IndexOf(st.nodes, ids[k])],
                              matchers, per_block_limit),
                    ids, k + 1, matchers, max_links, per_block_limit)

\* The soup itself, the one block of a tree without block tags.
Soup == 0

\* list(block.descendants): the ids of the text nodes under the block.
Descendants(nodes, block) ==
    LET under == SelectSeq(nodes, LAMBDA node :
                     block = Soup \/ block \in node.blocks)
    IN  ListOf([i \in 1..Len(under) |-> under[i].id])

RECURSIVE VisitBlocks(_, _, _, _, _, _)
\* The loop of lines 357-419 from blocks[b] on.
VisitBlocks(st, blocks, b, matchers, max_links, per_block_limit) ==
    IF b > Len(blocks) \/ st.link_count >= max_links THEN st
    ELSE VisitBlocks(VisitNodes([st EXCEPT !.block_links = 0],
                                Descendants(st.nodes, blocks[b]), 1,
                                matchers, max_links, per_block_limit),
                     blocks, b + 1, matchers, max_links, per_block_limit)

\* Lines 352-355 on.
LinkBlocks(html, matchers, max_links, max_links_per_block) ==
    VisitBlocks([nodes |-> html.nodes,
                 next_id |-> Len(html.nodes) + 1,
                 linked_keys |-> {},
                 link_count |-> 0,
                 block_links |-> 0,
                 inserted |-> <<>>],
                IF html.blocks = <<>> THEN <<Soup>> ELSE html.blocks, 1,
                matchers, max_links,
                Max2(1, Min2(max_links, max_links_per_block)))

\* What interlink_html returns of the state of its loops: the tree of the
\* html, and inserted.
ReturnedOf(st) == [nodes |-> st.nodes, inserted |-> st.inserted]

\* Lines 339-420, given the matchers.
LinkWith(html, matchers, max_links, max_links_per_block) ==
    IF (html.nodes = <<>> /\ html.blocks = <<>>) \/ matchers = <<>>
    THEN [nodes |-> html.nodes, inserted |-> <<>>]
    ELSE ReturnedOf(LinkBlocks(html, matchers, max_links, max_links_per_block))

\* interlink_html
interlink_html(html, slug_to_url, max_links, priority_pairs, max_links_per_block) ==
    LinkWith(html, build_term_matchers(slug_to_url, priority_pairs),
             max_links, max_links_per_block)

(***************************************************************************)
(* select_anchors called on its own: any list of Anchor objects for the    *)
(* source, and any limit.  selecting holds the arguments of the call and,  *)
(* once it returned, the list it gave.                                     *)
(***************************************************************************)

\* The longest list of candidate anchors.
MaxAnchors == 4

\* Anchor(text=source.text[start:end], start, end, variant)
AnchorOf(page, start, end, variant) ==
    [text |-> TextSlice(page.text, start, end),
     start |-> start,
     end |-> end,
     variant |-> variant]

\* Anchors on the text of SourceBlog: exact anchors of different texts, two
\* of one text at two places, two variants at one place, and a brand.
AnchorPool ==
    {AnchorOf(SourceBlog, 0, 8, "exact"),
     AnchorOf(SourceBlog, 0, 5, "exact"),
     AnchorOf(SourceBlog, 0, 5, "partial"),
     AnchorOf(SourceBlog, 15, 20, "exact"),
     AnchorOf(SourceBlog, 6, 8, "exact"),
     AnchorOf(SourceBlog, 18, 20, "exact"),
     AnchorOf(SourceBlog, 24, 26, "brand")}

\* The lists of at most n anchors of S.
AnchorLists(S, n) == UNION {[1..k -> S] : k \in 0..n}

\* The configurations: a limit each, and one without the key.
AnchorConfigs ==
    {Updated(DEFAULTS, [max_anchors_per_target |-> n]) : n \in {0, 1, 3, 5}}
    \cup {[max_candidates |-> 120]}

InitSelect ==
    /\ EngineIdle
    /\ NoHelpers
    /\ NoConfigs
    /\ NoRequests
    /\ NoLinking
    /\ selecting \in [source : {SourceBlog},
                      anchors : AnchorLists(AnchorPool, MaxAnchors),
                      config : AnchorConfigs,
                      returned : {FALSE},
                      result : {<<>>}]

\* select_anchors(source, target, anchors, config): the target is not read
SelectAnchors ==
    /\ ~selecting.returned
    /\ selecting' =
           [selecting EXCEPT
               !.returned = TRUE,
               !.result = select_anchors(selecting.source, selecting.anchors,
                                         selecting.config)]
    /\ UNCHANGED <<engine, configs, requests, linking, helpers>>

NextSelect == SelectAnchors

SpecSelect == InitSelect /\ [][NextSelect]_vars

(***************************************************************************)
(* interlink_html called once.  linking holds the arguments of the call    *)
(* and, once it returned, the tree of the html it gave and inserted.       *)
(***************************************************************************)

\* The longest list of priority pairs.
MaxPairs == 2

\* <p>ab cd ef</p><p>Ab cd ab</p>
HtmlParagraphs ==
    [nodes |-> <<TextNode(1, <<"a", "b", " ", "c", "d", " ", "e", "f">>, FALSE, {1}),
                 TextNode(2, <<"A", "b", " ", "c", "d", " ", "a", "b">>, FALSE, {2})>>,
     blocks |-> <<1, 2>>]

\* <blockquote><p>ab cd ab</p> ef <code>cd</code></blockquote><p> </p>
HtmlNested ==
    [nodes |-> <<TextNode(1, <<"a", "b", " ", "c", "d", " ", "a", "b">>, FALSE, {1, 2}),
                 TextNode(2, <<" ", "e", "f", " ">>, FALSE, {1}),
                 TextNode(3, <<"c", "d">>, TRUE, {1}),
                 TextNode(4, <<" ">>, FALSE, {3})>>,
     blocks |-> <<1, 2, 3>>]

\* ab <a href="/x">cd</a> abcd AB  cd ab (no block tag)
HtmlPlain ==
    [nodes |-> <<TextNode(1, <<"a", "b", " ">>, FALSE, {}),
                 TextNode(2, <<"c", "d">>, TRUE, {}),
                 TextNode(3, <<" ", "a", "b", "c", "d", " ", "A", "B", " ", " ", "c", "d", " ", "a", "b">>, FALSE, {})>>,
     blocks |-> <<>>]

\* The empty string.
HtmlEmpty == [nodes |-> <<>>, blocks |-> <<>>]

Htmls == {HtmlParagraphs, HtmlNested, HtmlPlain, HtmlEmpty}

\* Priority pairs: two spellings of one keyword with two URLs, a phrase
\* with a run of spaces, and a keyword of spaces only.
PriorityPool ==
    {<<<<"A", "b">>, "/p1">>,
     <<<<" ", "a", "b">>, "/p2">>,
     <<<<"a", "b", " ", " ", "c", "d">>, "/p3">>,
     <<<<" ">>, "/p4">>}

\* The lists of at most MaxPairs different pairs.
PriorityLists ==
    {list \in UNION {[1..k -> PriorityPool] : k \in 0..MaxPairs} :
        \A i, j \in 1..Len(list) : list[i] = list[j] => i = j}

\* Slugs with their URLs: two slugs of one display, a keyword of their own,
\* and keywords the priority pairs hold as well, in another spelling.
SlugPool ==
    {<<<<"a", "b">>, "/a1">>,
     <<<<"a", "b", " ">>, "/a2">>,
     <<<<"c", "d">>, "/a3">>,
     <<<<"A", "B", " ", " ", "c", "d">>, "/a4">>}

\* The dicts of slugs: each set of items in one insertion order and in the
\* opposite one.
SlugMaps ==
    UNION {{SeqOfSet(S), Reverse(SeqOfSet(S))} : S \in SUBSET SlugPool}

InitInterlink ==
    /\ EngineIdle
    /\ NoHelpers
    /\ NoConfigs
    /\ NoRequests
    /\ NoSelection
    /\ linking \in [html : Htmls,
                    slug_to_url : SlugMaps,
                    max_links : {0, 1, 2, 3},
                    priority_pairs : PriorityLists,
                    max_links_per_block : {1, 3},
                    returned : {FALSE},
                    nodes : {<<>>},
                    inserted : {<<>>}]

\* interlink_html(html, slug_to_url, max_links, priority_pairs=...,
\* max_links_per_block=...)
InterlinkHtml ==
    /\ ~linking.returned
    /\ \E out \in {interlink_html(linking.html, linking.slug_to_url,
                                  linking.max_links, linking.priority_pairs,
                                  linking.max_links_per_block)} :
          linking' = [linking EXCEPT !.returned = TRUE,
                                     !.nodes = out.nodes,
                                     !.inserted = out.inserted]
    /\ UNCHANGED <<engine, configs, requests, selecting, helpers>>

NextInterlink == InterlinkHtml

SpecInterlink == InitInterlink /\ [][NextInterlink]_vars

(***************************************************************************)
(* Helper functions called on their own.  applying holds the name of the   *)
(* function, the arguments of the call and, once it returned, its result.  *)
(***************************************************************************)

\* The state of every other entry point during such a call.
HelperOnly ==
    /\ EngineIdle
    /\ NoConfigs
    /\ NoRequests
    /\ NoSelection
    /\ NoLinking
    /\ workers = <<>>

\* A call that has not returned yet.
Call(function, args) ==
    [function |-> function, args |-> args, returned |-> FALSE, result |-> <<>>]

\* The flags of the metadata that choose_placement reads, and is_hub.
PlacementFlags == {"is_pillar", "is_hub", "is_conversion_page", "is_reference"}

\* The metadata mappings that hold some of the flags, each True or False.
FlagMetadata ==
    UNION {[keys -> BOOLEAN] : keys \in SUBSET PlacementFlags}

\* Targets of every metadata of flags and of four types.
PlacementTargets ==
    {[TargetSibling EXCEPT !.type = type, !.metadata = metadata] :
        type \in {"blog", "product", "category", "pillar"},
        metadata \in FlagMetadata}

InitPlacement ==
    /\ HelperOnly
    /\ applying \in {Call("choose_placement",
                          [source |-> SourceBlog, target |-> target,
                           config |-> DEFAULTS]) :
                        target \in PlacementTargets}

\* choose_placement(source, target, config)
ChoosePlacement ==
    /\ applying.function = "choose_placement"
    /\ ~applying.returned
    /\ applying' =
           [applying EXCEPT
               !.returned = TRUE,
               !.result = choose_placement(applying.args.source,
                                           applying.args.target,
                                           applying.args.config)]
    /\ UNCHANGED <<engine, configs, requests, selecting, linking, workers>>

NextPlacement == ChoosePlacement

SpecPlacement == InitPlacement /\ [][NextPlacement]_vars

\* Lists of tags: a word of the sources that the target may lack, a stop
\* word, two words of the sources, a hyphenated tag, and a blank tag.
TagLists ==
    {<<<<"k", "a">>>>,
     <<<<"i", "s">>>>,
     <<<<"m", "e">>, <<"A", "b">>>>,
     <<<<"g", "h", "-", "e", "f">>>>,
     <<<<" ">>, <<"k", "a">>>>}

\* Targets of each list of tags, with a title and a text that hold some of
\* the tags, and with a title of stop words only.
TaggedTargets ==
    {[TargetSibling EXCEPT !.tags = tags, !.title = title, !.text.head = head] :
        tags \in TagLists,
        title \in {<<"G", "h", " ", "E", "f">>, <<"i", "s", " ", "o", "f">>},
        head \in {<<"G", "h", " ", "E", "f", " ", "a", "b">>,
                  <<"i", "s", " ", "k", "a", " ", "m", "e">>}}

ExtractTargets ==
    TaggedTargets
    \cup {TargetHub, TargetProduct, TargetMoney, TargetBrand, TargetEntity}

InitExtract ==
    /\ HelperOnly
    /\ applying \in {Call("extract_candidate_anchors",
                          [source |-> page, target |-> target, seed |-> seed]) :
                        page \in {SourceBlog, SourceDotted, SourceMixed},
                        target \in ExtractTargets,
                        seed \in HashSeeds}

\* extract_candidate_anchors(source, target, config), in a process of the
\* string-hash seed
ExtractCandidateAnchors ==
    /\ applying.function = "extract_candidate_anchors"
    /\ ~applying.returned
    /\ applying' =
           [applying EXCEPT
               !.returned = TRUE,
               !.result = extract_candidate_anchors(applying.args.source,
                                                    applying.args.target,
                                                    applying.args.seed)]
    /\ UNCHANGED <<engine, configs, requests, selecting, linking, workers>>

NextExtract == ExtractCandidateAnchors

SpecExtract == InitExtract /\ [][NextExtract]_vars

\* Publish timestamps: none, malformed, and hours of 2024 that lie less than
\* a day, a day, a little more than a day, and many days apart.
PublishTimes ==
    {[kind |-> "none", hour |-> 0], [kind |-> "malformed", hour |-> 0]}
    \cup {[kind |-> "iso", hour |-> 473352 + offset] :
              offset \in {0, 1, 23, 24, 25, 47, 2400, 4800}}

\* Configs with the default half-life (absent key), and a short and a long one.
FreshnessConfigs ==
    {[max_candidates |-> 50],
     [freshness_half_life_days |-> 1],
     [freshness_half_life_days |-> 30]}

InitFreshness ==
    /\ HelperOnly
    /\ applying \in {Call("_freshness_score",
                          [source |-> [SourceBlog EXCEPT !.published_at = s],
                           target |-> [TargetSibling EXCEPT !.published_at = t],
                           config |-> c, now |-> FirstCallHour]) :
                        s \in PublishTimes, t \in PublishTimes,
                        c \in FreshnessConfigs}

\* _freshness_score(source, target, config)
FreshnessScore ==
    /\ applying.function = "_freshness_score"
    /\ ~applying.returned
    /\ applying' =
           [applying EXCEPT
               !.returned = TRUE,
               !.result = freshness_score(applying.args.source,
                                          applying.args.target,
                                          applying.args.config,
                                          applying.args.now)]
    /\ UNCHANGED <<engine, configs, requests, selecting, linking, workers>>

NextFreshness == FreshnessScore

SpecFreshness == InitFreshness /\ [][NextFreshness]_vars

(***************************************************************************)
(* middleware.py: requests of one client to one throttled route that are   *)
(* processed concurrently.  Each request has its own now and bucket; the   *)
(* cache is shared, and other requests may run between the cache.get and   *)
(* the cache.set of one request.                                           *)
(***************************************************************************)

\* The most requests in flight or answered.
MaxWorkers == 3

InitConcurrent ==
    /\ EngineIdle
    /\ NoConfigs
    /\ NoSelection
    /\ NoLinking
    /\ applying = <<>>
    /\ workers = <<>>
    /\ throttle \in {SlidingWindowRateThrottle(limit, window) :
                        limit \in {1, 2}, window \in {2, 3}}
    /\ now = 0
    /\ cache = <<>>
    /\ handled = <<>>
    /\ last = <<>>

\* Time passes while requests are in flight.
Pass ==
    /\ now < MaxTime
    /\ now' = now + 1
    /\ UNCHANGED <<engine, configs, picks, throttle, cache, handled, last>>

\* __call__, lines 33-52: a GET for the throttled route passes the three
\* early returns, takes now = time.time(), reads the bucket of the client,
\* drops the timestamps outside the window and checks the limit; a request
\* over the limit is rejected.
Receive ==
    /\ Len(workers) < MaxWorkers
    /\ LET bucket == InWindow(CacheGet(cache, now), now, throttle.window)
       IN  workers' =
               Append(workers,
                      IF over_limit(bucket, throttle.limit)
                      THEN [pc |-> "done", now |-> now, bucket |-> bucket,
                            status |-> 429]
                      ELSE [pc |-> "set", now |-> now, bucket |-> bucket,
                            status |-> 0])
    /\ UNCHANGED <<engine, configs, requests, selecting, linking, applying>>

\* __call__, lines 54-56: the request appends its now, writes the bucket
\* back and is passed to the handler.
SetBucket(w) ==
    /\ workers[w].pc = "set"
    /\ cache' = [value |-> Append(workers[w].bucket, workers[w].now),
                 expires |-> now + throttle.window]
    /\ handled' = Append(handled, [at |-> workers[w].now, method |-> "GET"])
    /\ workers' = [workers EXCEPT ![w] = [@ EXCEPT !.pc = "done", !.status = 200]]
    /\ UNCHANGED <<engine, configs, selecting, linking, applying, throttle,
                   now, last>>

NextConcurrent ==
    \/ Pass
    \/ Receive
    \/ \E w \in 1..Len(workers) : SetBucket(w)

SpecConcurrent == InitConcurrent /\ [][NextConcurrent]_vars

(***************************************************************************)
(* Properties of the list suggest_links returns.                           *)
(***************************************************************************)

\* The call returned a list.
Returned == pc = "done" /\ raised = ""

\* The anchors of all Suggestions of the returned list.
ResultAnchors == ConcatAll(ListOf([i \in 1..Len(result) |-> result[i].anchors]))

\* The budget as the specification words it.
StatedBudget ==
    Min2(ConfigGet(config, "base_links_per_page", 3) + SplitCount(source.text) \div 500,
         ConfigGet(config, "max_links_per_page", 12))

\* The returned list holds the Suggestion of an evaluated item of the role.
HasRole(role) ==
    \E i \in 1..Len(result), k \in 1..Len(evaluated) :
        evaluated[k].role = role /\ result[i] = SuggestionOf(evaluated[k])

\* C1: the returned list holds no two Suggestions of one target URL and no
\* Suggestion of the source's own URL, whatever the corpus holds (the source,
\* several pages of one URL) and after the parent/sibling backfill.
C1_DistinctTargets ==
    Returned =>
        /\ \A i, j \in 1..Len(result) :
               i /= j => result[i].target_url /= result[j].target_url
        /\ \A i \in 1..Len(result) : result[i].target_url /= source.url

\* Two evaluated pages share a URL, and the list returned links to it.
C1_Witness ==
    /\ Returned
    /\ \E a, b \in 1..Len(evaluated) :
           /\ a /= b
           /\ evaluated[a].target.url = evaluated[b].target.url
           /\ \E i \in 1..Len(result) : result[i].target_url = evaluated[a].target.url

\* C2: no two anchors of the returned list, in one Suggestion or in two,
\* have the same text once lowered.
C2_DistinctAnchorTexts ==
    Returned =>
        \A i, j \in 1..Len(ResultAnchors) :
            i /= j => StrLower(ResultAnchors[i].text) /= StrLower(ResultAnchors[j].text)

\* Two evaluated targets of different URLs offer an anchor of the same
\* lowered text, and the list returned is not empty.
C2_Witness ==
    /\ Returned
    /\ result /= <<>>
    /\ \E a, b \in 1..Len(evaluated) :
           /\ evaluated[a].target.url /= evaluated[b].target.url
           /\ AnchorTexts(evaluated[a].anchors) \cap AnchorTexts(evaluated[b].anchors) /= {}

\* C3: the selection never holds more Suggestions than the link budget
\* min(base_links_per_page + floor(words / 500), max_links_per_page), during
\* the greedy pass, after the backfill and in the list returned.
C3_WithinBudget ==
    /\ pc \in {"select", "sort", "done"} => Len(selected) <= StatedBudget
    /\ Returned => Len(result) <= StatedBudget

\* A long page under a hard cap below base + floor(words / 500): more
\* candidates were evaluated than the budget, and the list returned is full.
C3_Witness ==
    /\ Returned
    /\ ConfigGet(config, "max_links_per_page", 12)
           < ConfigGet(config, "base_links_per_page", 3) + SplitCount(source.text) \div 500
    /\ Len(evaluated) > StatedBudget
    /\ Len(result) = StatedBudget
    /\ StatedBudget >= 1

\* C4: score_candidate gives every candidate a score within [0, 1] (in
\* millionths) and raises nothing, whatever the features, weights and
\* penalties; so does every Suggestion of the list returned.
C4_ScoreInUnitInterval ==
    /\ raised /= "OverflowError"
    /\ \A k \in 1..Len(evaluated) :
           0 <= evaluated[k].score /\ evaluated[k].score <= 1000000
    /\ \A i \in 1..Len(result) : 0 <= result[i].score /\ result[i].score <= 1000000

\* A Suggestion is returned whose linear combination lies outside [-60, 60].
C4_Witness ==
    /\ Returned
    /\ \E k \in 1..Len(evaluated) :
           /\ Abs(LinearSum(evaluated[k].features, config, 1)
                    - PenaltySum(evaluated[k].features, config, 1)) > 600000
           /\ \E i \in 1..Len(result) : result[i] = SuggestionOf(evaluated[k])

\* An anchor lies in the source text and is the text between its offsets.
AnchorCutFromSource(anchor) ==
    /\ 0 <= anchor.start
    /\ anchor.start < anchor.end
    /\ anchor.end <= TextLen(source.text)
    /\ TextSlice(source.text, anchor.start, anchor.end) = anchor.text

\* C5: every Anchor extract_candidate_anchors produces for a candidate, and
\* every Anchor of a returned Suggestion, satisfies
\* 0 <= start < end <= len(source.text) and source.text[start:end] = text.
C5_AnchorsCutFromSource ==
    /\ \A k \in 1..Len(candidates) :
           \A a \in Range(extract_candidate_anchors(source, candidates[k], hash_seed)) :
               AnchorCutFromSource(a)
    /\ \A i \in 1..Len(ResultAnchors) : AnchorCutFromSource(ResultAnchors[i])

\* C6: the character spans [start, end) of any two anchors of the returned
\* list, of one Suggestion or of two, are disjoint.
C6_DisjointSpans ==
    Returned =>
        \A i, j \in 1..Len(ResultAnchors) :
            i /= j => \/ ResultAnchors[i].end <= ResultAnchors[j].start
                      \/ ResultAnchors[j].end <= ResultAnchors[i].start

\* C10 as stated: a role among the evaluated candidates is a role of the
\* returned list, for the roles parent and sibling.
C10_RoleDiversity ==
    Returned =>
        \A role \in {"parent", "sibling"} :
            (\E k \in 1..Len(evaluated) : evaluated[k].role = role) => HasRole(role)

\* C10, amended: when the returned list holds no Suggestion of a role, every
\* evaluated candidate of that role has the URL of a returned Suggestion, or
\* shares a lowered anchor text with one, or scores no higher than any
\* returned Suggestion while the list is at the budget.
C10_RoleDiversityWhenRoom ==
    Returned =>
        \A role \in {"parent", "sibling"} :
            \A k \in 1..Len(evaluated) :
                (evaluated[k].role = role /\ ~HasRole(role)) =>
                    \/ \E i \in 1..Len(result) :
                           result[i].target_url = evaluated[k].target.url
                    \/ AnchorTexts(evaluated[k].anchors)
                           \cap AnchorTexts(ResultAnchors) /= {}
                    \/ /\ Len(result) = link_budget
                       /\ \A i \in 1..Len(result) :
                              evaluated[k].score <= result[i].score

\* A parent was evaluated, collides with nothing returned, and the list at
\* its budget holds no parent.
C10_Witness ==
    /\ Returned
    /\ ~HasRole("parent")
    /\ result /= <<>>
    /\ \E k \in 1..Len(evaluated) :
           /\ evaluated[k].role = "parent"
           /\ \A i \in 1..Len(result) :
                  result[i].target_url /= evaluated[k].target.url
           /\ AnchorTexts(evaluated[k].anchors) \cap AnchorTexts(ResultAnchors) = {}

(***************************************************************************)
(* Guardrails.                                                             *)
(***************************************************************************)

\* What the guardrail names: noindex, nofollow, redirect, paginated
\* duplicate, blocked, status 300 or more, a canonical that is not the
\* page's URL, a URL holding "login" or "cart".
Risky(page) ==
    \/ page.noindex
    \/ page.nofollow
    \/ MetaGet(page, "is_redirect", FALSE)
    \/ MetaGet(page, "is_paginated_duplicate", FALSE)
    \/ MetaGet(page, "blocked", FALSE)
    \/ MetaGet(page, "status_code", 200) >= 300
    \/ (page.canonical /= <<>> /\ page.canonical /= page.url)
    \/ Contains(page.url, <<"l", "o", "g", "i", "n">>)
    \/ Contains(page.url, <<"c", "a", "r", "t">>)

\* Both languages are known, they differ, and no tag is shared.
HardMismatch(page, target) ==
    /\ page.lang /= ""
    /\ target.lang /= ""
    /\ page.lang /= target.lang
    /\ LoweredTags(page) \cap LoweredTags(target) = {}

CrossLanguageAllowed == ConfigGet(config, "allow_cross_language", FALSE)

\* C7: no Suggestion of the returned list targets a page of the corpus that
\* is noindex, nofollow, a redirect, a paginated duplicate, blocked, of
\* status 300 or more, of a canonical other than its URL, or of a URL
\* holding "login" or "cart".
C7_NoRiskyTarget ==
    Returned =>
        \A i \in 1..Len(result) :
            \A k \in 1..Len(corpus) :
                corpus[k].url = result[i].target_url => ~Risky(corpus[k])

\* A risky page was among the candidates, and the list returned is not empty.
C7_Witness ==
    /\ Returned
    /\ result /= <<>>
    /\ \E k \in 1..Len(candidates) : Risky(candidates[k])

\* C8: unless allow_cross_language is true, no Suggestion targets a page
\* whose known language differs from the source's known language and that
\* shares no tag with it; when it is true, allow_candidate lets such a
\* candidate through if no other guardrail stops it.
C8_LanguageGuardrail ==
    /\ (Returned /\ ~CrossLanguageAllowed) =>
           \A i \in 1..Len(result) :
               \A k \in 1..Len(corpus) :
                   corpus[k].url = result[i].target_url
                       => ~HardMismatch(source, corpus[k])
    /\ (pc /= "start" /\ CrossLanguageAllowed) =>
           \A k \in 1..Len(candidates) :
               (HardMismatch(source, candidates[k]) /\ ~Risky(candidates[k]))
                   => allow_candidate(source, candidates[k], config)

\* With allow_cross_language true, the list returned links to a page in
\* another language that shares no tag with the source.
C8_Witness ==
    /\ Returned
    /\ CrossLanguageAllowed
    /\ \E i \in 1..Len(result) :
           \E k \in 1..Len(corpus) :
               /\ corpus[k].url = result[i].target_url
               /\ HardMismatch(source, corpus[k])

(***************************************************************************)
(* Two calls.                                                              *)
(***************************************************************************)

\* C9: the second of two calls with the same source, corpus and
\* configuration gives what the first gave.
C9_Deterministic ==
    (call = 2 /\ pc = "done") => Outcome = first_result

(***************************************************************************)
(* Order and content of the returned list.                                 *)
(***************************************************************************)

\* C11: the returned list is ordered by non-increasing score: of two adjacent
\* Suggestions the earlier scores at least what the later scores, after the
\* backfill too.
C11_SortedByScore ==
    Returned =>
        \A i \in 1..(Len(result) - 1) : result[i].score >= result[i + 1].score

\* Two Suggestions of different scores are returned, the higher first,
\* although the corpus lists the lower-scoring target first.
C11_Witness ==
    /\ Returned
    /\ Len(result) >= 2
    /\ Len(corpus) >= 2
    /\ result[1].score > result[2].score
    /\ result[1].target_url = corpus[2].url
    /\ result[2].target_url = corpus[1].url

\* The anchors select_anchors gives the call for a page of the corpus.
AnchorsFor(page) ==
    select_anchors(source, extract_candidate_anchors(source, page, hash_seed), config)

\* C12: every returned Suggestion has an anchor, and its anchors are those
\* select_anchors chose for a page of the corpus with its URL; a candidate
\* select_anchors gives no anchor (max_anchors_per_target of 0 included) is
\* not in the returned list.
C12_EverySuggestionAnchored ==
    Returned =>
        \A i \in 1..Len(result) :
            /\ result[i].anchors /= <<>>
            /\ \E k \in 1..Len(corpus) :
                   /\ corpus[k].url = result[i].target_url
                   /\ AnchorsFor(corpus[k]) = result[i].anchors

\* A candidate without an anchor in the source was dropped, another one
\* was returned.
C12_Witness ==
    /\ Returned
    /\ result /= <<>>
    /\ \E k \in 1..Len(candidates) :
           /\ AnchorsFor(candidates[k]) = <<>>
           /\ allow_candidate(source, candidates[k], config)
           /\ \A i \in 1..Len(result) : result[i].target_url /= candidates[k].url

\* Both pages have a language and the two differ.
LanguagesDiffer(page, target) ==
    page.lang /= "" /\ target.lang /= "" /\ page.lang /= target.lang

\* C13: a returned Suggestion lists lang_mismatch among its risk_flags if
\* and only if the source and its target both have a language and the two
\* languages differ.
C13_LangMismatchFlag ==
    Returned =>
        \A i \in 1..Len(result) :
            \E k \in 1..Len(evaluated) :
                /\ result[i] = SuggestionOf(evaluated[k])
                /\ ("lang_mismatch" \in Range(result[i].risk_flags))
                       <=> LanguagesDiffer(source, evaluated[k].target)

\* The returned list holds a flagged target in another language and an
\* unflagged target.
C13_Witness ==
    /\ Returned
    /\ \E i \in 1..Len(result) : "lang_mismatch" \in Range(result[i].risk_flags)
    /\ \E i \in 1..Len(result) : "lang_mismatch" \notin Range(result[i].risk_flags)

(***************************************************************************)
(* Properties of the record dry_run returns.                               *)
(***************************************************************************)

\* dry_run returned its record.
MetricsReturned == pc = "returned" /\ raised = ""

MetricKeys ==
    {"coverage", "orphan_rate", "avg_click_depth_after",
     "anchor_diversity_index", "dup_target_rate", "mean_score_selected",
     "mean_score_rejected", "language_mismatch_rate", "anchor_variant_counts"}

\* C14: the record dry_run returns has the nine keys coverage, orphan_rate,
\* avg_click_depth_after, anchor_diversity_index, dup_target_rate,
\* mean_score_selected, mean_score_rejected, language_mismatch_rate and
\* anchor_variant_counts, and its coverage and its anchor_diversity_index
\* are within [0, 1].
C14_MetricsWithinUnitInterval ==
    MetricsReturned =>
        /\ DOMAIN metrics = MetricKeys
        /\ metrics.coverage >= 0 /\ metrics.coverage <= 1000
        /\ metrics.anchor_diversity_index >= 0
        /\ metrics.anchor_diversity_index <= 1000

\* No candidate of the corpus survives: the corpus is empty, no page of it
\* passes generate_candidates, or every candidate is dropped before it is
\* scored.
NoCandidateSurvives ==
    \/ corpus = <<>>
    \/ candidates = <<>>
    \/ \A i \in 1..Len(candidates) :
          EvaluateOne(source, candidates[i], TextStats, config, clock, hash_seed) = <<>>

\* The batch or the corpus of the dry run is empty.
EmptyInputs == pages = <<>> \/ corpus = <<>>

\* The metrics that are zero whatever the corpus, when nothing was suggested.
NeutralMetrics ==
    /\ metrics.coverage = 0
    /\ metrics.anchor_diversity_index = 0
    /\ metrics.mean_score_selected = 0
    /\ metrics.mean_score_rejected = 0
    /\ metrics.dup_target_rate = 0
    /\ metrics.language_mismatch_rate = 0

\* C15 as stated: empty inputs raise nothing; a page for which no candidate
\* survives gets an empty list; dry_run with an empty batch or an empty
\* corpus returns 0 for coverage, anchor_diversity_index, the mean scores and
\* all rates, orphan_rate among them.
C15_EmptyInputsAllZero ==
    /\ EmptyInputs => raised = ""
    /\ pc = "done" /\ NoCandidateSurvives => raised = "" /\ result = <<>>
    /\ MetricsReturned /\ EmptyInputs => NeutralMetrics /\ metrics.orphan_rate = 0

\* C15, amended: as stated, except that orphan_rate is 0 only when the corpus
\* is empty; with an empty batch and a corpus of pages every page of the
\* corpus is an orphan and orphan_rate is 1.
C15_EmptyInputsNeutral ==
    /\ EmptyInputs => raised = ""
    /\ pc = "done" /\ NoCandidateSurvives => raised = "" /\ result = <<>>
    /\ MetricsReturned /\ EmptyInputs =>
           /\ NeutralMetrics
           /\ metrics.orphan_rate = (IF corpus = <<>> THEN 0 ELSE 1000)

\* dry_run returned for an empty batch and a corpus of pages.
C15_Witness ==
    /\ MetricsReturned
    /\ pages = <<>>
    /\ corpus /= <<>>
    /\ metrics.orphan_rate = 1000

(***************************************************************************)
(* Properties of load_config.                                              *)
(***************************************************************************)

\* The configuration the last call of load_config returned, as its readers
\* see it.
LastLoaded == Deep(heap, loaded[Len(loaded)].raw)

\* The document the last call of load_config merged, {} if it merged none.
LastOverride ==
    IF loaded[Len(loaded)].path.exists THEN loaded[Len(loaded)].path.user
    ELSE [k \in {} |-> Scalar(0)]

\* The override gives weights and penalties, where it gives them, as
\* mappings.
NamesKeysOnly(override) ==
    \A map \in {"weights", "penalties"} \cap DOMAIN override :
        override[map].kind = "dict"

\* The value of a key of a map of the configuration after a merge, as the
\* claim states it.
StatedNested(override, map, feature) ==
    IF map \in DOMAIN override /\ feature \in DOMAIN override[map].items
    THEN override[map].items[feature].value
    ELSE DEFAULTS[map][feature]

\* config.feature_weight or config.penalty_weight
NestedWeight(loaded_config, map, feature) ==
    IF map = "weights" THEN feature_weight(loaded_config, feature)
    ELSE penalty_weight(loaded_config, feature)

\* What C16 states of the configuration a call returned.
MergedAsStated(loaded_config, override) ==
    /\ \A map \in {"weights", "penalties"} :
          /\ \A feature \in DOMAIN DEFAULTS[map] :
                 NestedWeight(loaded_config, map, feature)
                     = StatedNested(override, map, feature)
          /\ map \in DOMAIN override =>
                 \A feature \in DOMAIN override[map].items :
                     NestedWeight(loaded_config, map, feature)
                         = override[map].items[feature].value
          /\ \A feature \in (DOMAIN DEFAULTS.weights \cup DOMAIN DEFAULTS.penalties
                              \cup {"f_new", "f_nowhere"}) \ DOMAIN DEFAULTS[map] :
                 map \notin DOMAIN override \/ feature \notin DOMAIN override[map].items
                     => NestedWeight(loaded_config, map, feature) = 0
    /\ \A key \in DOMAIN DEFAULTS \ {"weights", "penalties"} :
          /\ key \in DOMAIN loaded_config
          /\ loaded_config[key] =
                 IF key \in DOMAIN override THEN override[key].value ELSE DEFAULTS[key]

\* C16: the merge is recursive.  When load_config returns after it merged an
\* override that names only some keys of weights or of penalties, exactly
\* those keys have the values of the override and every other weight, penalty
\* and scalar knob has its default; a feature that neither map names has
\* weight 0 and penalty 0.
C16_RecursiveMerge ==
    [][Len(loaded') = Len(loaded) + 1 /\ NamesKeysOnly(LastOverride')
           => MergedAsStated(LastLoaded', LastOverride')]_vars

\* A call merged an override that names one key of weights and a knob, and
\* the weight and the knob have the values of the override.
C16_Witness ==
    /\ loaded /= <<>>
    /\ loaded[Len(loaded)].path.exists
    /\ DOMAIN LastOverride = {"weights", "score_floor"}
    /\ LastLoaded.weights.f_new = 5
    /\ LastLoaded.weights.f_title_bm25 = 14

\* C17: the template is never mutated.  After any calls of load_config and
\* any writes to the raw dicts they returned, into their weights and
\* penalties too, DEFAULTS has the values it was defined with, and
\* load_config(None) returns exactly those values.
C17_DefaultsNeverMutated ==
    /\ Deep(heap, 1) = DEFAULTS
    /\ Deep(load_config(heap, NoPath), Len(heap) + 1) = DEFAULTS

\* Two configurations were loaded, and the first was written to: a knob, a
\* weight and a penalty of it differ from the defaults.
C17_Witness ==
    /\ Len(loaded) = 2
    /\ IsDictAt(heap, loaded[1].raw, "weights")
    /\ Deep(heap, loaded[1].raw).max_links_per_page = 2
    /\ Deep(heap, loaded[1].raw).weights.f_title_bm25 = 99
    /\ Deep(heap, loaded[1].raw).penalties.f_duplicate_risk = 0

(***************************************************************************)
(* Properties of SlidingWindowRateThrottle.                                *)
(***************************************************************************)

\* The number of requests with one of the methods that were passed to the
\* handler for the throttled route within the last window seconds.
PassedInWindow(methods) ==
    Cardinality({i \in 1..Len(handled) :
                    /\ handled[i].at > now - throttle.window
                    /\ handled[i].method \in methods})

\* A request with GET or POST came in for the throttled route.
ThrottledRequest(request) ==
    /\ request.method \in {"GET", "POST"}
    /\ request.url_name /= ""
    /\ RouteName(request) = ThrottledRoute

\* A request came in for a route that THROTTLED_ROUTES does not list.
UnlistedRequest(request) ==
    /\ request.url_name /= ""
    /\ RouteName(request) \notin THROTTLED_ROUTES

\* C18 as stated: once limit requests, of whatever method, were passed to the
\* handler for the throttled route within the last window seconds, the next
\* request with GET or POST is answered 429 and the handler is not called;
\* a request to a route that is not listed is passed to the handler.
C18_RejectedAfterLimitPassed ==
    [][RequestNumber' = RequestNumber + 1 =>
          /\ ThrottledRequest(last'.request)
                /\ PassedInWindow({"GET", "POST", "PUT"}) >= throttle.limit
             => last'.status = 429 /\ ~last'.called /\ handled' = handled
          /\ UnlistedRequest(last'.request) => last'.called]_vars

\* C18, amended: once limit requests with GET or POST were passed to the
\* handler for the throttled route within the last window seconds, the next
\* request with GET or POST is answered 429 and the handler is not called;
\* a request to a route that is not listed is passed to the handler.
C18_RejectedAfterLimitCounted ==
    [][RequestNumber' = RequestNumber + 1 =>
          /\ ThrottledRequest(last'.request)
                /\ PassedInWindow({"GET", "POST"}) >= throttle.limit
             => last'.status = 429 /\ ~last'.called /\ handled' = handled
          /\ UnlistedRequest(last'.request) => last'.called]_vars

\* A request with GET or POST was answered 429 after as many such requests
\* as the limit were passed within the window.
C18_Witness ==
    /\ RequestNumber > 0
    /\ ThrottledRequest(last.request)
    /\ last.status = 429
    /\ ~last.called
    /\ PassedInWindow({"GET", "POST"}) >= throttle.limit

(***************************************************************************)
(* The list select_anchors returns.                                        *)
(***************************************************************************)

\* config.get("max_anchors_per_target", 2) of the call
StatedLimit == ConfigGet(selecting.config, "max_anchors_per_target", 2)

\* The exact anchors of a list.
ExactOf(anchors) == SelectSeq(anchors, LAMBDA a : a.variant = "exact")

\* C19: select_anchors returns at most max_anchors_per_target anchors, 2 if
\* the configuration does not say, and at most max(1, floor(0.4 * limit)) of
\* them are of the variant exact, whatever the candidate anchors.
C19_AnchorLimits ==
    selecting.returned =>
        /\ Len(selecting.result) <= StatedLimit
        /\ Len(ExactOf(selecting.result)) <= Max2(1, (4 * StatedLimit) \div 10)

\* A call without the key in the configuration was offered four anchors,
\* two of them exact, and returned two anchors, one of them exact.
C19_Witness ==
    /\ selecting.returned
    /\ "max_anchors_per_target" \notin DOMAIN selecting.config
    /\ Len(selecting.anchors) = 4
    /\ Len(ExactOf(selecting.anchors)) = 2
    /\ Len(selecting.result) = 2
    /\ Len(ExactOf(selecting.result)) = 1

(***************************************************************************)
(* What interlink_html returns.                                            *)
(***************************************************************************)

\* The keyword of a term: lowered, trimmed, runs of whitespace collapsed.
Keyword(term) == JoinWords(Split(StrLower(term)))

\* The keywords of a list of pairs of a term and a URL, but for the empty
\* one.
KeywordsOf(items) ==
    {Keyword(items[i][1]) : i \in 1..Len(items)} \ {<<>>}

\* The URL of the first priority pair of the keyword.
PriorityUrl(keyword) ==
    linking.priority_pairs[CHOOSE i \in 1..Len(linking.priority_pairs) :
        /\ Keyword(linking.priority_pairs[i][1]) = keyword
        /\ \A j \in 1..(i - 1) :
              Keyword(linking.priority_pairs[j][1]) /= keyword][2]

\* The anchors in the tree that interlink_html made.
AnchorsMade == SelectSeq(linking.nodes, LAMBDA node : node.data_source /= "")

\* C20: interlink_html inserts at most max_links links, links each keyword
\* (whatever the case, runs of whitespace collapsed) at most once, and
\* links a keyword a priority pair gives to the URL of the priority pair,
\* reported with priority=True, also where a slug gives the keyword too.
C20_LinkedOncePriorityFirst ==
    linking.returned =>
        /\ Len(linking.inserted) <= linking.max_links
        /\ Len(AnchorsMade) = Len(linking.inserted)
        /\ {AnchorsMade[i].href : i \in 1..Len(AnchorsMade)}
               = {linking.inserted[i].url : i \in 1..Len(linking.inserted)}
        /\ \A i, j \in 1..Len(linking.inserted) :
              Keyword(linking.inserted[i].term) = Keyword(linking.inserted[j].term)
                  => i = j
        /\ \A i \in 1..Len(linking.inserted) :
              Keyword(linking.inserted[i].term)
                      \in KeywordsOf(linking.priority_pairs)
                  => /\ linking.inserted[i].priority
                     /\ linking.inserted[i].url
                            = PriorityUrl(Keyword(linking.inserted[i].term))

\* A call with a limit of two links linked two keywords, one of them given
\* by a priority pair and by a slug and linked as the priority pair says,
\* the other from a slug alone, and left a third keyword that occurs in
\* the html unlinked.
C20_Witness ==
    /\ linking.returned
    /\ linking.max_links = 2
    /\ Len(linking.inserted) = 2
    /\ Cardinality(KeywordsOf(linking.priority_pairs)
                       \cup KeywordsOf(linking.slug_to_url)) = 3
    /\ \E i, j \in 1..2 :
          /\ Keyword(linking.inserted[i].term)
                 \in KeywordsOf(linking.priority_pairs)
                         \cap KeywordsOf(linking.slug_to_url)
          /\ linking.inserted[i].priority
          /\ ~linking.inserted[j].priority

(***************************************************************************)
(* The flags, the placement and the anchors of what suggest_links returns. *)
(***************************************************************************)

\* The target is a product page of fewer tokens than product_wordcount_min.
ThinProduct(target) ==
    /\ target.type = "product"
    /\ TokenCount(target.text) < ConfigGet(config, "product_wordcount_min", 250)

\* C21: a returned Suggestion lists thin_target among its risk_flags if and
\* only if its target is of the type product and has fewer tokens than
\* product_wordcount_min, 250 if the configuration does not say; a target
\* of another type never carries the flag.
C21_ThinTargetFlag ==
    Returned =>
        \A i \in 1..Len(result) :
            \E k \in 1..Len(evaluated) :
                /\ result[i] = SuggestionOf(evaluated[k])
                /\ ("thin_target" \in Range(result[i].risk_flags))
                       <=> ThinProduct(evaluated[k].target)

\* The returned list holds a thin product with the flag and a product of
\* enough words without it.
C21_Witness ==
    /\ Returned
    /\ \E i \in 1..Len(result) : "thin_target" \in Range(result[i].risk_flags)
    /\ \E k \in 1..Len(evaluated) :
          /\ evaluated[k].target.type = "product"
          /\ ~ThinProduct(evaluated[k].target)
          /\ \E i \in 1..Len(result) : result[i] = SuggestionOf(evaluated[k])

\* metadata.get(flag) is true
Flagged(page, flag) == MetaGet(page, flag, FALSE)

\* The placement as stated: intro for a pillar, a hub and the types category
\* and pillar, then body for a conversion page, then conclusion for a
\* reference, else body.
StatedPlacement(target) ==
    IF \/ Flagged(target, "is_pillar")
       \/ Flagged(target, "is_hub")
       \/ target.type \in {"category", "pillar"}
    THEN "intro"
    ELSE IF Flagged(target, "is_conversion_page") THEN "body"
    ELSE IF Flagged(target, "is_reference") THEN "conclusion"
    ELSE "body"

\* C22: choose_placement returns intro for a target flagged is_pillar or
\* is_hub or of the type category or pillar, otherwise body for a
\* conversion page, otherwise conclusion for a reference, otherwise body,
\* and so always one of intro, body and conclusion.
C22_PlacementAsStated ==
    applying.returned =>
        /\ applying.result = StatedPlacement(applying.args.target)
        /\ applying.result \in {"intro", "body", "conclusion"}

\* The tag as the code reads it: str(tag).strip()
TagCandidate(tag) == Strip(tag)

\* The tag is one word and no stop word.
SingleNonStopWord(tag) ==
    /\ Len(Split(TagCandidate(tag))) = 1
    /\ StrLower(TagCandidate(tag)) \notin STOPWORDS

\* The 0-based places where the tag occurs in the text of the source,
\* whatever the case.
OccurrencesIn(page, tag) ==
    Range(FindIter(StrLower(TagCandidate(tag)), StrLower(page.text.head), 1))

\* C23: every tag of the target that is a single word, no stop word, and
\* occurs in the text of the source (whatever the case) yields an Anchor of
\* the variant tag for each of its occurrences in the text of the source.
C23_TagAnchorsFromSource ==
    applying.returned =>
        \A i \in 1..Len(applying.args.target.tags) :
            SingleNonStopWord(applying.args.target.tags[i]) =>
                \A start \in OccurrencesIn(applying.args.source,
                                           applying.args.target.tags[i]) :
                    \E k \in 1..Len(applying.result) :
                        /\ applying.result[k].variant = "tag"
                        /\ applying.result[k].start = start

\* The words of an anchor text.
WordsOf(text) == Split(Strip(text))

\* The shape of a valid anchor of its variant.
ValidShape(anchor) ==
    IF anchor.variant \in {"entity", "brand", "tag"}
    THEN /\ Len(WordsOf(anchor.text)) = 1
         /\ StrLower(WordsOf(anchor.text)[1]) \notin STOPWORDS
    ELSE /\ Len(WordsOf(anchor.text)) >= 2
         /\ Len(WordsOf(anchor.text)) <= 7
         /\ \E w \in 1..Len(WordsOf(anchor.text)) :
               StrLower(WordsOf(anchor.text)[w]) \notin STOPWORDS

\* C26: every Anchor extract_candidate_anchors returns is of a valid shape:
\* of the variants entity, brand and tag it is one word that is no stop
\* word, of any other variant it has two to seven words, not all of them
\* stop words.
C26_AnchorsOfValidShape ==
    applying.returned =>
        \A k \in 1..Len(applying.result) : ValidShape(applying.result[k])

\* The call returned a tag anchor, and none for the title of the target,
\* which occurs in the source and is of stop words only.
C26_Witness ==
    /\ applying.returned
    /\ \E k \in 1..Len(applying.result) : applying.result[k].variant = "tag"
    /\ Contains(StrLower(applying.args.source.text.head),
                StrLower(applying.args.target.title))
    /\ \A w \in 1..Len(Split(applying.args.target.title)) :
          StrLower(Split(applying.args.target.title)[w]) \in STOPWORDS
    /\ \A k \in 1..Len(applying.result) : applying.result[k].variant /= "exact"

\* The (start, end) position of an anchor.
PositionOf(anchor) == <<anchor.start, anchor.end>>

\* _anchor_score of an anchor of the call, scaled as anchor_score scales it.
ScoreInCall(anchor) ==
    anchor_score(anchor, Max2(TextLen(selecting.source.text), 1))

\* C24: select_anchors returns at most one anchor per (start, end), each of
\* them a candidate of the highest score among the candidates of its
\* position, and returns them in ascending order of start.
C24_BestPerPositionByStart ==
    selecting.returned =>
        /\ \A i, j \in 1..Len(selecting.result) :
              PositionOf(selecting.result[i]) = PositionOf(selecting.result[j])
                  => i = j
        /\ \A i \in 1..Len(selecting.result) :
              /\ selecting.result[i] \in Range(selecting.anchors)
              /\ \A k \in 1..Len(selecting.anchors) :
                    PositionOf(selecting.anchors[k]) = PositionOf(selecting.result[i])
                        => ScoreInCall(selecting.anchors[k])
                               <= ScoreInCall(selecting.result[i])
        /\ \A i, j \in 1..Len(selecting.result) :
              i < j => selecting.result[i].start <= selecting.result[j].start

\* The candidates held a partial anchor ahead of an exact one of the same
\* position and an anchor further on ahead of both; the call returned the
\* exact one first and the other after it.
C24_Witness ==
    /\ selecting.returned
    /\ Len(selecting.anchors) = 3
    /\ selecting.anchors[1].start > selecting.anchors[2].start
    /\ selecting.anchors[2].variant = "partial"
    /\ selecting.anchors[3].variant = "exact"
    /\ PositionOf(selecting.anchors[2]) = PositionOf(selecting.anchors[3])
    /\ selecting.result = <<selecting.anchors[3], selecting.anchors[1]>>

\* What the first loop of select_anchors selects in the call, sorted by
\* start.
FirstPassAlone ==
    IF selecting.anchors = <<>> THEN <<>>
    ELSE ByStart(FirstPass(RankAnchors(selecting.anchors,
                                       Max2(TextLen(selecting.source.text), 1)),
                           1, StatedLimit,
                           Max2(1, (StatedLimit * 4) \div 10), <<>>, 0))

\* C28: the diversity loop of select_anchors never adds an anchor: what
\* select_anchors returns is what its first loop selected, sorted by start,
\* whatever the candidate anchors and the limit.
C28_SecondPassAddsNothing ==
    selecting.returned => selecting.result = FirstPassAlone

\* The first loop left room under the limit and had passed over an exact
\* anchor of a text of its own: the diversity loop ran and added nothing.
C28_Witness ==
    /\ selecting.returned
    /\ Len(selecting.result) < StatedLimit
    /\ \E k \in 1..Len(selecting.anchors) :
          /\ selecting.anchors[k].variant = "exact"
          /\ \A i \in 1..Len(selecting.result) :
                StrLower(Strip(selecting.result[i].text))
                    /= StrLower(Strip(selecting.anchors[k].text))
    /\ \E i \in 1..Len(selecting.result) :
          selecting.result[i].variant /= "exact"

\* The value stated for two parseable timestamps that lie d whole days apart.
StatedFreshness(d, settings) ==
    LET half_life == ConfigGet(settings, "freshness_half_life_days", 90)
    IN  clamp(Max2(100, ((2 * half_life - d) * 1000) \div (2 * half_life)))

\* The whole days between two parsed timestamps, whichever is the later.
DaysBetween(a, b) == Abs(a.hour - b.hour) \div 24

\* C25: for a source and a target that both have a parseable timestamp,
\* f_freshness is clamp(max(0.1, 1 - d/(2*half_life))) with d the absolute
\* number of days between the two timestamps, so it is the same when the
\* two timestamps are swapped; a target with no or a malformed timestamp
\* gives 0.4.
C25_FreshnessSymmetric ==
    (applying # <<>> /\ applying.function = "_freshness_score"
        /\ applying.returned) =>
        LET s == applying.args.source
            t == applying.args.target
            c == applying.args.config
        IN  /\ (s.published_at.kind = "iso"
                    /\ t.published_at.kind = "iso") =>
                   /\ applying.result =
                          StatedFreshness(DaysBetween(s.published_at,
                                                      t.published_at),
                                          c)
                   /\ applying.result =
                          freshness_score(t, s, c,
                                          applying.args.now)
            /\ t.published_at.kind # "iso" => applying.result = 400

(***************************************************************************)
(* The backfill of _evaluate_candidates and the link budget.               *)
(***************************************************************************)

\* The step in which the greedy loop has ended and _ensure_hub_and_sibling
\* runs on what the loop selected.
BackfillStep == pc = "select" /\ pc' # "select"

\* C27: for every link budget >= 1 the parent/sibling backfill leaves the
\* selection of the greedy pass as it is: nothing is appended, no incumbent
\* is replaced and nothing is raised, so the list returned is the greedy
\* selection after the final sort.
C27_BackfillChangesNothing ==
    [][(BackfillStep /\ link_budget >= 1) =>
           /\ selected' = selected
           /\ raised' = ""
           /\ pc' = "sort"]_vars

\* A backfill block found an eligible candidate, a target the greedy pass
\* had not used, and the budget of at least one link kept it out.
C27_Witness ==
    /\ pc = "done" /\ raised = ""
    /\ link_budget >= 1
    /\ result # <<>>
    /\ \E url \in used_targets :
           \A i \in 1..Len(result) : result[i].target_url # url

\* C30: when the computed link budget is 0, suggest_links returns an empty
\* list without raising, for every corpus, also one with candidates of the
\* parent or the sibling role that qualify.
C30_NoBudgetEmptyList ==
    (pc = "done" /\ max_links_for_page(source, config) = 0) =>
        /\ raised = ""
        /\ result = <<>>

(***************************************************************************)
(* Properties of SlidingWindowRateThrottle under concurrent requests.      *)
(***************************************************************************)

\* The number of entries of a list of timestamps that equal one timestamp.
CountOf(timestamps, at) ==
    Cardinality({i \in 1..Len(timestamps) : timestamps[i] = at})

\* The timestamps of the requests that were passed to the handler.
Accepted == ListOf([i \in 1..Len(handled) |-> handled[i].at])

\* C29: when requests of one client to one throttled route are processed
\* concurrently, with any interleaving between the read of the bucket and
\* the write back, no window holds more than limit requests that were passed
\* to the handler, and the bucket holds the timestamp of every accepted
\* request that is still in the window.
C29_ConcurrentWithinLimit ==
    workers # <<>> =>
        /\ \A i \in 1..Len(handled) :
               Cardinality({j \in 1..Len(handled) :
                               /\ handled[j].at <= handled[i].at
                               /\ handled[j].at > handled[i].at - throttle.window})
                   <= throttle.limit
        /\ \A i \in 1..Len(handled) :
               handled[i].at > now - throttle.window =>
                   CountOf(CacheGet(cache, now), handled[i].at)
                       >= CountOf(Accepted, handled[i].at)

=============================================================================
